---------------------------- MODULE Spec2Model ----------------------------
(***************************************************************************)
(* A model of the retrieval-augmented question answering pipeline of the   *)
(* Support repository: the query side (SUPPORT/ask.py, SUPPORT/web.py) and *)
(* the index builders (SUPPORT/build/build_regard.py,                      *)
(* SQL/build/build_query.py).                                              *)
(*                                                                         *)
(* The module holds several specifications over one set of variables; a    *)
(* specification leaves the variables of the other parts at their idle     *)
(* values.                                                                 *)
(*   SpecDedupe  dedupe_by_source as a pure function                       *)
(*   SpecPrompt  build_prompt as a pure function                           *)
(*   SpecQuery   one question through ask_question / the /api/search route *)
(*   SpecCache   concurrent requests through the process-wide index cache  *)
(*   SpecBuild   build runs writing the output directory, with a loader    *)
(*   SpecEmbed   build runs against an embedding service of any behaviour  *)
(*   SpecChunk   chunk_text and split_markdown_to_chunks as pure functions *)
(*               over character sequences                                  *)
(*   SpecIngest  the loop of main over the input files, in two build runs  *)
(*   SpecScan    the loop of split_markdown_to_chunks, one line a step     *)
(***************************************************************************)
EXTENDS Integers, Sequences, FiniteSets, TLC

VARIABLES
    \* ---- dedupe_by_source (SpecDedupe)
    dd_pc,           \* "input" before the call, "done" after it
    dd_hits,         \* the argument hits: a sequence of hit records
    dd_cap,          \* the argument per_source_cap
    dd_out,          \* the returned list
    \* ---- build_prompt (SpecPrompt)
    bp_pc,           \* "input" before the call, "done" after it
    bp_contexts,     \* the argument contexts
    bp_max,          \* the argument max_ctx_chars
    bp_blocks,       \* the accepted blocks, as ranks (the i of enumerate(contexts, 1))
    bp_total,        \* the local total when the loop ends
    \* ---- the index directory on disk
    fs,              \* file name -> content of the file (exists = FALSE: absent)
    \* ---- one question (SpecQuery)
    q_pc,            \* "start", "embed", "search", "collect", "generate", "done"
    q_path,          \* "ask": ask.py ask_question; "web": web.py search
    q_args,          \* project, question, topk, per_source_cap of the request
    cache,           \* web.py _cache: whether the directory has an entry
    q_index,         \* the loaded index
    q_corpus,        \* the loaded corpus list
    q_qdim,          \* qvec.shape[1], 0 before the embedding call
    q_indices,       \* indices[0] as returned by the index search
    q_hits,          \* hits before deduplication
    q_used,          \* the positions corpus[pos] was evaluated with, in order
    q_dedup,         \* hits after dedupe_by_source
    q_prompt,        \* ranks of the blocks build_prompt put in the prompt
    q_calls,         \* which of the two reads, logging.warning, search, the
                     \* collecting loop, build_prompt, ollama_generate ran
    q_result,        \* what the request returned
    \* ---- concurrent requests of the web process (SpecCache)
    t_pc,            \* per request thread: its place in load_index_and_corpus
    t_pair,          \* per thread: the load that made the pair it holds, 0: none
    diskReads,       \* how many times the directory was read from disk
    cacheWrites,     \* how many times _cache[cache_key] was assigned
    \* ---- build runs and a loader process (SpecBuild)
    b_pc,            \* the build's place in main(): "idle", "embed", "index", "write"
    b_k,             \* at "write": the number of the file written next
    b_kind,          \* "regard": build_regard.py; "query": build_query.py
    b_run,           \* number of the current build run, 0 before the first
    b_chunks,        \* total_chunks of the run
    b_dim,           \* embedding dimension of the run
    svc,             \* the embedding service the runs talk to: "model" answers
                     \* a request it answers with one vector of a model's
                     \* dimension per text, "any" with any list of vectors
    b_resps,         \* the embedding responses received so far, one per
                     \* request: each the list of its vectors, a vector by
                     \* its length
    b_calls,         \* requests sent to the embedding service by the run
    b_fault,         \* how a request of the run failed, "none" if none did
    b_index,         \* the index object main() constructed in memory
    b_status,        \* the run: "none", "running", "ok", "failed", "empty"
    fs_before,       \* the directory as it was when the current run started
    l_pc,            \* the loader's place in ask.py load_index_and_corpus
    l_index,         \* the index the loader read
    l_corpus,        \* the corpus the loader read
    l_corpus_by,     \* the build run that wrote the corpus file it read
    l_after,         \* the last build run and its status when the load began
    \* ---- chunk_text (SpecChunk)
    ct_pc,           \* "input" before the call, "done" after it
    ct_text,         \* the argument text, a sequence of characters
    ct_chunk_tokens, \* the argument chunk_tokens
    ct_overlap,      \* the argument overlap
    ct_out,          \* the returned list of chunks
    ct_tails,        \* the tail seeded into the next window after each chunk
                     \* appended inside the loop, in order
    \* ---- split_markdown_to_chunks (SpecChunk)
    md_pc,           \* "input" before the call, "done" after it
    md_text,         \* the argument text, a sequence of characters
    md_limit,        \* CHUNK_CHAR_LIMIT of the process
    md_overlap,      \* CHUNK_OVERLAP_CHARS of the process
    md_chunks,       \* the list chunks when the loop over the lines has ended
    md_out,          \* the returned list refined_chunks
    md_trace,        \* per returned chunk: the position in md_chunks of the
                     \* chunk it was made from and the overlap put in front
    md_dropped,      \* the texts the loop over the lines put in no chunk
    \* ---- the loop of main over the input files (SpecIngest)
    i_pc,            \* "start", "scan", "ended", or "idle"
    i_builder,       \* "regard" (build_regard.py) or "query" (build_query.py)
    i_dir,           \* the input directory: file name -> content
    i_run,           \* the number of the build run under way
    i_listing,       \* the file names in the order the file system gave them
    i_files,         \* the local files of main
    i_pos,           \* the position in i_files of the next file to process
    i_all,           \* all_chunks (build_regard) or chunks (build_query)
    i_emitted,       \* per processed file, the chunks the chunker returned
    i_written,       \* per run, whether it wrote and the records it wrote
    \* ---- the loop of split_markdown_to_chunks over the lines (SpecScan)
    ln_pc,           \* "scan" in the loop, "done" after it, or "idle"
    ln_lines,        \* the local lines
    ln_pos,          \* the position in ln_lines of the next line
    ln_st            \* the locals of the loop: in_code, code_buffer,
                     \* current_paragraph, the heading context h, chunks

ddVars == <<dd_pc, dd_hits, dd_cap, dd_out>>
bpVars == <<bp_pc, bp_contexts, bp_max, bp_blocks, bp_total>>

qVars  == <<q_pc, q_path, q_args, cache, q_index, q_corpus, q_qdim, q_indices,
            q_hits, q_used, q_dedup, q_prompt, q_calls, q_result>>

tVars  == <<t_pc, t_pair, diskReads, cacheWrites>>
bVars  == <<b_pc, b_k, b_kind, b_run, b_chunks, b_dim, svc, b_resps, b_calls, b_fault,
            b_index, b_status, fs_before>>
lVars  == <<l_pc, l_index, l_corpus, l_corpus_by, l_after>>

wVars  == <<ct_pc, ct_text, ct_chunk_tokens, ct_overlap, ct_out, ct_tails>>
mVars  == <<md_pc, md_text, md_limit, md_overlap, md_chunks, md_out, md_trace,
            md_dropped>>

iVars  == <<i_pc, i_builder, i_dir, i_run, i_listing, i_files, i_pos, i_all,
            i_emitted, i_written>>

sVars  == <<ln_pc, ln_lines, ln_pos, ln_st>>

vars == <<ddVars, bpVars, fs, qVars, tVars, bVars, lVars, wVars, mVars, iVars, sVars>>

\* What the actions of one part leave alone: the variables of the other parts.
notDedupe == <<bpVars, fs, qVars, tVars, bVars, lVars, wVars, mVars, iVars, sVars>>
notPrompt == <<ddVars, fs, qVars, tVars, bVars, lVars, wVars, mVars, iVars, sVars>>
notQuery  == <<ddVars, bpVars, tVars, bVars, lVars, wVars, mVars, iVars, sVars>>
notCache  == <<ddVars, bpVars, fs, q_pc, q_path, q_args, q_index, q_corpus, q_qdim,
               q_indices, q_hits, q_used, q_dedup, q_prompt, q_calls, q_result,
               bVars, lVars, wVars, mVars, iVars, sVars>>
notBuild  == <<ddVars, bpVars, qVars, tVars, wVars, mVars, iVars, sVars>>
notWindow == <<ddVars, bpVars, fs, qVars, tVars, bVars, lVars, mVars, iVars, sVars>>
notMarkdown == <<ddVars, bpVars, fs, qVars, tVars, bVars, lVars, wVars, iVars, sVars>>
notIngest == <<ddVars, bpVars, fs, qVars, tVars, bVars, lVars, wVars, mVars, sVars>>
notScan == <<ddVars, bpVars, fs, qVars, tVars, bVars, lVars, wVars, mVars, iVars>>

(***************************************************************************)
(* Generic helpers.                                                        *)
(***************************************************************************)

\* All sequences over S of length 0..n.
SeqsUpTo(S, n) == UNION {[1..k -> S] : k \in 0..n}

\* s is a subsequence of t: the elements of s occur in t in the same order.
RECURSIVE IsSubseq(_, _)
IsSubseq(s, t) ==
    IF s = <<>> THEN TRUE
    ELSE IF t = <<>> THEN FALSE
    ELSE IF Head(s) = Head(t) THEN IsSubseq(Tail(s), Tail(t))
    ELSE IsSubseq(s, Tail(t))

\* Python's None.
None == "<None>"

\* Python truthiness of an optional string: None and "" are falsy.
Falsy(v) == v = None \/ v = ""

(***************************************************************************)
(* Bounds of the model.                                                    *)
(***************************************************************************)
MaxHits == 4         \* longest hit list handed to dedupe_by_source
MaxCap == 2          \* largest per_source_cap tried
MaxContexts == 3     \* longest context list handed to build_prompt

(***************************************************************************)
(* dedupe_by_source (SUPPORT/ask.py and SUPPORT/web.py, identical bodies). *)
(***************************************************************************)

\* File names a hit may carry; None is a record without a "file" key.
Files == {"a_x.md", "b_y.md", "unknown", None}

\* src = h.get("file") or "unknown"
SourceKey(h) == IF Falsy(h.file) THEN "unknown" ELSE h.file

\* A faulty variant of the cap test: it admits one hit too many per source.
CapAllowsOffByOne(n, cap) == n <= cap

\* if n < per_source_cap
CapAllows(n, cap) == n < cap

\* The for loop of dedupe_by_source from hit i on; bucket.get(src, 0) is
\* bucket[src] of a function that is 0 where the dict has no key.
RECURSIVE DedupeLoop(_, _, _, _, _)
DedupeLoop(hits, cap, i, bucket, out) ==
    IF i > Len(hits) THEN out
    ELSE LET src == SourceKey(hits[i])
             n == bucket[src]
         IN  IF CapAllows(n, cap)
             THEN DedupeLoop(hits, cap, i + 1,
                             [bucket EXCEPT ![src] = n + 1],
                             Append(out, hits[i]))
             ELSE DedupeLoop(hits, cap, i + 1, bucket, out)

dedupe_by_source(hits, per_source_cap) ==
    DedupeLoop(hits, per_source_cap, 1,
               [s \in {SourceKey(hits[i]) : i \in DOMAIN hits} |-> 0], <<>>)

\* The hit lists tried: the hit at rank i carries id i and any file.
DedupeInputs ==
    {[i \in DOMAIN fl |-> [id |-> i, file |-> fl[i]]] : fl \in SeqsUpTo(Files, MaxHits)}

DedupeIdle ==
    /\ dd_pc = "idle"
    /\ dd_hits = <<>>
    /\ dd_cap = 0
    /\ dd_out = <<>>

DedupeInit ==
    /\ dd_pc = "input"
    /\ dd_hits \in DedupeInputs
    /\ dd_cap \in -1..MaxCap
    /\ dd_out = <<>>

DedupeCall ==
    /\ dd_pc = "input"
    /\ dd_out' = dedupe_by_source(dd_hits, dd_cap)
    /\ dd_pc' = "done"
    /\ UNCHANGED <<dd_hits, dd_cap, notDedupe>>

(***************************************************************************)
(* build_prompt (SUPPORT/ask.py and SUPPORT/web.py, identical loops).      *)
(* A string is modelled by its length; a context carries the lengths of    *)
(* its title, of its headings joined by " > ", and of its body             *)
(* c["text"].strip().replace("\n\n", "\n").                                *)
(***************************************************************************)

\* The contexts tried: a bare short chunk, a titled one, one with headings,
\* and a long one.
Contexts ==
    { [file |-> "a_x.md", title |-> 0, heads |-> 0, body |-> 0],
      [file |-> "a_x.md", title |-> 1, heads |-> 0, body |-> 2],
      [file |-> "b_y.md", title |-> 1, heads |-> 2, body |-> 2],
      [file |-> "b_y.md", title |-> 2, heads |-> 0, body |-> 14] }

\* len(str(i))
RECURSIVE Digits(_)
Digits(i) == IF i < 10 THEN 1 ELSE 1 + Digits(i \div 10)

\* len(header): "[i] title", plus " — heads" when heads is non-empty.
HeaderLen(i, c) ==
    2 + Digits(i) + 1 + c.title + (IF c.heads > 0 THEN 3 + c.heads ELSE 0)

\* len(block), block = f"{header}\n{body}"
BlockLen(i, c) == HeaderLen(i, c) + 1 + c.body

\* A faulty variant of the break test: it forgets "and blocks".
StopsWithoutFirstBlock(total, blockLen, max_ctx_chars, blocks) ==
    total + blockLen > max_ctx_chars

\* A faulty variant of the break test: it also stops at a block that fits exactly.
StopsAtExactFit(total, blockLen, max_ctx_chars, blocks) ==
    total + blockLen >= max_ctx_chars /\ blocks # <<>>

\* if total + len(block) > max_ctx_chars and blocks: break
Stops(total, blockLen, max_ctx_chars, blocks) ==
    total + blockLen > max_ctx_chars /\ blocks # <<>>

\* The for loop of build_prompt from context i on; the result is the list
\* of accepted blocks (by rank) and the final total.
RECURSIVE PromptLoop(_, _, _, _, _)
PromptLoop(contexts, max_ctx_chars, i, blocks, total) ==
    IF i > Len(contexts) THEN [blocks |-> blocks, total |-> total]
    ELSE LET len == BlockLen(i, contexts[i])
         IN  IF Stops(total, len, max_ctx_chars, blocks)
             THEN [blocks |-> blocks, total |-> total]
             ELSE PromptLoop(contexts, max_ctx_chars, i + 1,
                             Append(blocks, i), total + len)

build_prompt(contexts, max_ctx_chars) ==
    PromptLoop(contexts, max_ctx_chars, 1, <<>>, 0)

\* The budgets tried: negative, zero, below, at and above the block sizes.
Budgets == {-1, 0, 4, 5, 10, 13, 18, 21, 40}

PromptIdle ==
    /\ bp_pc = "idle"
    /\ bp_contexts = <<>>
    /\ bp_max = 0
    /\ bp_blocks = <<>>
    /\ bp_total = 0

PromptInit ==
    /\ bp_pc = "input"
    /\ bp_contexts \in SeqsUpTo(Contexts, MaxContexts)
    /\ bp_max \in Budgets
    /\ bp_blocks = <<>>
    /\ bp_total = 0

PromptCall ==
    /\ bp_pc = "input"
    /\ LET r == build_prompt(bp_contexts, bp_max)
       IN  /\ bp_blocks' = r.blocks
           /\ bp_total' = r.total
    /\ bp_pc' = "done"
    /\ UNCHANGED <<bp_contexts, bp_max, notPrompt>>

(***************************************************************************)
(* The index directory of a project and its loader.                        *)
(*                                                                         *)
(* chunks.faiss holds the vector count and the dimension of the index;     *)
(* corpus.jsonl is a sequence of lines, each either the JSON object of a   *)
(* chunk or text json.loads rejects.  "by" is the build run that wrote the *)
(* file (0: the file was there before any run of the model).               *)
(***************************************************************************)

IndexFile == "chunks.faiss"
CorpusFile == "corpus.jsonl"
ChunksJson == "chunks.json"
ManifestFile == "manifest.json"
Artifacts == {IndexFile, CorpusFile, ChunksJson, ManifestFile}

\* Embedding dimensions of the models in use.
Dims == {768, 1024}

Absent == [exists |-> FALSE, whole |-> FALSE, by |-> 0, ntotal |-> 0, d |-> 0,
           lines |-> <<>>]

\* A file a write left truncated: it exists and holds the lines that got out.
Truncated(run, lines) ==
    [exists |-> TRUE, whole |-> FALSE, by |-> run, ntotal |-> 0, d |-> 0,
     lines |-> lines]

\* chunks.faiss as faiss.write_index leaves it: n vectors of dimension d.
IndexContent(run, n, d) ==
    [exists |-> TRUE, whole |-> TRUE, by |-> run, ntotal |-> n, d |-> d,
     lines |-> <<>>]

\* corpus.jsonl holding the given lines.
CorpusContent(run, lines) ==
    [exists |-> TRUE, whole |-> TRUE, by |-> run, ntotal |-> 0, d |-> 0,
     lines |-> lines]

\* The record the builder writes for chunk i of a build: id, file, title,
\* headings and text (the last three by their lengths in the prompt).
FileOfChunk(i) ==
    CASE i % 4 = 1 -> "a_x.md"
      [] i % 4 = 2 -> "a_x.md"
      [] i % 4 = 3 -> "b_y.md"
      [] OTHER     -> None

BodyOfChunk(i) ==
    CASE i % 4 = 1 -> 1000
      [] i % 4 = 2 -> 1500
      [] i % 4 = 3 -> 200
      [] OTHER     -> 50

RecOfChunk(i) ==
    [id |-> i, file |-> FileOfChunk(i), title |-> 5,
     heads |-> (IF i % 2 = 0 THEN 7 ELSE 0), body |-> BodyOfChunk(i)]

GoodLine(i) == [ok |-> TRUE, rec |-> RecOfChunk(i)]
BadLine(i) == [ok |-> FALSE, rec |-> RecOfChunk(i)]

\* The contents corpus.jsonl may have: line i is the record of chunk i, or
\* is malformed.
CorpusContents(n) ==
    UNION {[1..k -> BOOLEAN] : k \in 0..n}

LinesOf(oks) == [i \in DOMAIN oks |-> IF oks[i] THEN GoodLine(i) ELSE BadLine(i)]

\* req = ["chunks.faiss", "corpus.jsonl"]; missing = [f for f in req if not exists]
MissingFiles(dir) == {f \in {IndexFile, CorpusFile} : ~dir[f].exists}

\* for line in f: try: corpus.append(json.loads(line)) except: continue
RECURSIVE ReadCorpus(_, _)
ReadCorpus(lines, i) ==
    IF i > Len(lines) THEN <<>>
    ELSE IF lines[i].ok THEN <<lines[i].rec>> \o ReadCorpus(lines, i + 1)
    ELSE ReadCorpus(lines, i + 1)

\* faiss.read_index: the index object of the file.
ReadIndex(dir) == [ntotal |-> dir[IndexFile].ntotal, d |-> dir[IndexFile].d,
                   by |-> dir[IndexFile].by]

NoIndex == [ntotal |-> 0, d |-> 0, by |-> 0]
NoError == [type |-> "none", dims |-> {}, files |-> {}]
Error(type, dims, files) == [type |-> type, dims |-> dims, files |-> files]

LoadFailed(err) == [err |-> err, index |-> NoIndex, corpus |-> <<>>]

\* A faulty variant of the loader: a corpus whose size differs from
\* index.ntotal is a failure.
AskLoadStrict(dir) ==
    IF MissingFiles(dir) # {}
    THEN LoadFailed(Error("missing", {}, MissingFiles(dir)))
    ELSE IF ~dir[IndexFile].whole
    THEN LoadFailed(Error("read_index", {}, {IndexFile}))
    ELSE IF Len(ReadCorpus(dir[CorpusFile].lines, 1)) # dir[IndexFile].ntotal
    THEN LoadFailed(Error("read_index", {}, {IndexFile, CorpusFile}))
    ELSE [err |-> NoError, index |-> ReadIndex(dir),
          corpus |-> ReadCorpus(dir[CorpusFile].lines, 1)]

\* ask.py load_index_and_corpus: ensure_files, then faiss.read_index (which
\* raises on a file it cannot parse), then the lines of corpus.jsonl.
AskLoad(dir) ==
    IF MissingFiles(dir) # {}
    THEN LoadFailed(Error("missing", {}, MissingFiles(dir)))
    ELSE IF ~dir[IndexFile].whole
    THEN LoadFailed(Error("read_index", {}, {IndexFile}))
    ELSE [err |-> NoError, index |-> ReadIndex(dir),
          corpus |-> ReadCorpus(dir[CorpusFile].lines, 1)]

\* web.py load_index_and_corpus on a cache miss: no ensure_files; the first
\* file that cannot be read raises.
WebLoad(dir) ==
    IF ~dir[IndexFile].exists \/ ~dir[IndexFile].whole
    THEN LoadFailed(Error("read_index", {}, {IndexFile}))
    ELSE IF ~dir[CorpusFile].exists
    THEN LoadFailed(Error("open", {}, {CorpusFile}))
    ELSE [err |-> NoError, index |-> ReadIndex(dir),
          corpus |-> ReadCorpus(dir[CorpusFile].lines, 1)]

\* The artifacts ask.py load_index_and_corpus opens: none when ensure_files
\* raises, else the index (which may fail to parse) and then the corpus.
AskReads(dir) ==
    IF MissingFiles(dir) # {} THEN {}
    ELSE IF ~dir[IndexFile].whole THEN {IndexFile}
    ELSE {IndexFile, CorpusFile}

\* The artifacts web.py load_index_and_corpus opens on a cache miss: the
\* index if it exists, and the corpus if the index was read and it exists.
WebReads(dir) ==
    IF ~dir[IndexFile].exists THEN {}
    ELSE IF ~dir[IndexFile].whole \/ ~dir[CorpusFile].exists THEN {IndexFile}
    ELSE {IndexFile, CorpusFile}

\* if len(corpus) != index.ntotal: logging.warning(...)
SizeWarning(index, corpus) == Len(corpus) # index.ntotal

\* q_calls after a load that opened the artifacts in reads.
WithReads(calls, reads) ==
    [calls EXCEPT !.read_index = IndexFile \in reads,
                  !.read_corpus = CorpusFile \in reads]

(***************************************************************************)
(* One question: ask_question (SUPPORT/ask.py) and the /api/search route   *)
(* (SUPPORT/web.py).                                                       *)
(***************************************************************************)

MaxLines == 3        \* most lines of corpus.jsonl
MaxVectors == 3      \* most vectors in the index

DefaultTopK == 8     \* ask_question(topk=8); top_k = 8 in web.py
DefaultCap == 2      \* per_source_cap=2
DefaultMaxCtx == 2600 \* build_prompt(max_ctx_chars=2600)

Projects == {"dependq", "revenue", "regard", "hubble"}

\* The values of -k/--topk and --per-source-cap tried on the command line.
TopKs == {2, DefaultTopK}
Caps == {0, 1, DefaultCap}

NoResult == [kind |-> "none", answer |-> "", sources |-> <<>>, error |-> NoError,
             http |-> 0]
\* {"error": str(e)} (ask.py); jsonify({'error': ...}), code (web.py)
ErrorResult(err, code) ==
    [kind |-> "error", answer |-> "", sources |-> <<>>, error |-> err, http |-> code]
\* {"answer": ..., "sources": [...]}
AnswerResult(answer, sources, code) ==
    [kind |-> "answer", answer |-> answer, sources |-> sources, error |-> NoError,
     http |-> code]

\* The HTTP status of a response of the web route; ask_question has none.
Status(path, code) == IF path = "web" THEN code ELSE 0

\* The class of the exception each failure of a question is raised as:
\* ensure_files and open() raise FileNotFoundError, faiss.read_index and
\* the status, emptiness and dimension tests raise RuntimeError, the httpx
\* client raises ConnectError, r.json() raises JSONDecodeError.
ExceptionClass(type) ==
    CASE type \in {"missing", "open"}                         -> "FileNotFoundError"
      [] type \in {"read_index", "embed", "dim", "generate"}   -> "RuntimeError"
      [] type = "embed_transport"                              -> "ConnectError"
      [] type = "embed_malformed"                              -> "JSONDecodeError"
      [] type = "index_error"                                  -> "IndexError"
      [] type = "faiss_assert"                                 -> "AssertionError"
      [] OTHER                                                 -> "BaseException"

\* A faulty variant of the handler: except RuntimeError.
CaughtOnlyRuntimeError(cls) == cls = "RuntimeError"

\* except Exception as e: the classes that derive from Exception.
Caught(cls) ==
    cls \in {"FileNotFoundError", "RuntimeError", "ConnectError", "JSONDecodeError",
             "IndexError", "AssertionError"}

\* An exception that leaves the function: the caller gets no result dict.
Propagated(err) ==
    [kind |-> "raised", answer |-> "", sources |-> <<>>, error |-> err, http |-> 0]

\* An exception raised inside the try block of ask_question or of the
\* route: the handler returns {"error": str(e)}, or the exception leaves.
Handled(err, code) ==
    IF Caught(ExceptionClass(err.type)) THEN ErrorResult(err, code) ELSE Propagated(err)

NoCalls == [read_index |-> FALSE, read_corpus |-> FALSE, warning |-> FALSE,
            search |-> FALSE, collect |-> FALSE, prompt |-> FALSE, generate |-> FALSE]

\* What index.search(qvec, k) returns for one query: k positions, the
\* min(k, ntotal) nearest vectors in rank order, then -1 for the ranks the
\* index has no vector for.
SearchResults(ntotal, k) ==
    LET m == IF k < ntotal THEN k ELSE ntotal
        ranked == {p \in [1..m -> 0..(ntotal - 1)] :
                       \A i, j \in 1..m : i # j => p[i] # p[j]}
    IN  {[i \in 1..k |-> IF i <= m THEN p[i] ELSE -1] : p \in ranked}

\* A faulty variant of the bounds check: it forgets the negative positions.
SkipsOnlyAbove(pos, corpus) == pos >= Len(corpus)

\* if pos < 0 or pos >= len(corpus): continue
Skips(pos, corpus) == pos < 0 \/ pos >= Len(corpus)

\* The dict built from rec by the loop body: rec.get of each key.
HitOf(rec) ==
    [id |-> rec.id, file |-> rec.file, title |-> rec.title, heads |-> rec.heads,
     body |-> rec.body]

\* The "Collect hits" loop from rank i on.  corpus[pos] is Python's list
\* indexing: a negative pos counts from the end, and a pos outside
\* -len..len-1 raises IndexError.
RECURSIVE CollectLoop(_, _, _, _, _)
CollectLoop(indices, corpus, i, hits, used) ==
    IF i > Len(indices) THEN [hits |-> hits, used |-> used, raised |-> FALSE]
    ELSE LET pos == indices[i]
         IN  IF Skips(pos, corpus)
             THEN CollectLoop(indices, corpus, i + 1, hits, used)
             ELSE IF pos >= Len(corpus) \/ pos < -Len(corpus)
             THEN [hits |-> hits, used |-> Append(used, pos), raised |-> TRUE]
             ELSE LET rec == corpus[IF pos >= 0 THEN pos + 1
                                    ELSE Len(corpus) + pos + 1]
                  IN  CollectLoop(indices, corpus, i + 1,
                                  Append(hits, HitOf(rec)), Append(used, pos))

CollectHits(indices, corpus) == CollectLoop(indices, corpus, 1, <<>>, <<>>)

\* A faulty variant of the emptiness test: it never takes the early return.
NoHitsNever(hits) == FALSE

\* if not hits
NoHits(hits) == hits = <<>>

\* make_url: strip ".md", replace the first "_" by ":", prefix the site base.
make_url(f) ==
    CASE f = "a_x.md"  -> "doku.php?id=a:x"
      [] f = "b_y.md"  -> "doku.php?id=b:y"
      [] OTHER         -> "doku.php?id=unknown"

\* used_files: the files of hits, first occurrence order, falsy files left out.
RECURSIVE UsedFiles(_, _, _)
UsedFiles(hits, i, seen) ==
    IF i > Len(hits) THEN <<>>
    ELSE LET f == hits[i].file
         IN  IF ~Falsy(f) /\ f \notin seen
             THEN <<f>> \o UsedFiles(hits, i + 1, seen \cup {f})
             ELSE UsedFiles(hits, i + 1, seen)

SourceUrls(hits) ==
    LET used == UsedFiles(hits, 1, {}) IN [i \in DOMAIN used |-> make_url(used[i])]

QueryIdle ==
    /\ q_pc = "idle"
    /\ q_path = "none"
    /\ q_args = [project |-> "", question |-> "", topk |-> 0, cap |-> 0]
    /\ q_index = NoIndex
    /\ q_corpus = <<>>
    /\ q_qdim = 0
    /\ q_indices = <<>>
    /\ q_hits = <<>>
    /\ q_used = <<>>
    /\ q_dedup = <<>>
    /\ q_prompt = <<>>
    /\ q_calls = NoCalls
    /\ q_result = NoResult

\* The directories a question may find: either file absent or present, any
\* vector count and dimension, any mix of good and malformed corpus lines.
QueryDirs ==
    LET indexes == {Absent, Truncated(0, <<>>)} \cup
            {IndexContent(0, n, d) : n \in 0..MaxVectors, d \in Dims}
        corpora == {Absent} \cup
            {CorpusContent(0, LinesOf(oks)) : oks \in CorpusContents(MaxLines)}
    IN  {[f \in Artifacts |-> IF f = IndexFile THEN ix
                              ELSE IF f = CorpusFile THEN co ELSE Absent] :
             ix \in indexes, co \in corpora}

QueryInit ==
    /\ fs \in QueryDirs
    /\ cache = [filled |-> FALSE, by |-> 0]
    /\ q_pc = "start"
    /\ q_path = "none"
    /\ q_args = [project |-> "", question |-> "", topk |-> 0, cap |-> 0]
    /\ q_index = NoIndex
    /\ q_corpus = <<>>
    /\ q_qdim = 0
    /\ q_indices = <<>>
    /\ q_hits = <<>>
    /\ q_used = <<>>
    /\ q_dedup = <<>>
    /\ q_prompt = <<>>
    /\ q_calls = NoCalls
    /\ q_result = NoResult

\* The request ends with result r.
Return(r) ==
    /\ q_result' = r
    /\ q_pc' = "done"

\* ask_question up to the embedding call: the project test, ensure_files,
\* load_index_and_corpus (ask.py lines 162-167, 39-59).
AskStart ==
    /\ q_pc = "start"
    /\ \E project \in {"regard", "nope"}, topk \in TopKs, cap \in Caps :
        /\ q_path' = "ask"
        /\ q_args' = [project |-> project, question |-> "q", topk |-> topk, cap |-> cap]
        /\ IF project \notin Projects
           THEN /\ Return(ErrorResult(Error("unknown_project", {}, {}), 0))
                /\ UNCHANGED <<q_index, q_corpus, q_calls>>
           ELSE IF AskLoad(fs).err # NoError
           THEN /\ Return(Handled(AskLoad(fs).err, 0))
                /\ q_calls' = WithReads(q_calls, AskReads(fs))
                /\ UNCHANGED <<q_index, q_corpus>>
           ELSE /\ q_index' = AskLoad(fs).index
                /\ q_corpus' = AskLoad(fs).corpus
                /\ q_calls' = [WithReads(q_calls, AskReads(fs)) EXCEPT
                                  !.warning = SizeWarning(AskLoad(fs).index,
                                                          AskLoad(fs).corpus)]
                /\ q_pc' = "embed"
                /\ UNCHANGED q_result
    /\ UNCHANGED <<notQuery, fs, cache, q_qdim, q_indices, q_hits, q_used, q_dedup, q_prompt>>

\* The /api/search route up to the embedding call: the question and project
\* tests and the cached load_index_and_corpus (web.py lines 150-162, 47-63),
\* for the first request of the process.
WebStart ==
    /\ q_pc = "start"
    /\ \E project \in {"regard", "nope"}, question \in {"q", ""} :
        /\ q_path' = "web"
        /\ q_args' = [project |-> project, question |-> question,
                      topk |-> DefaultTopK, cap |-> DefaultCap]
        /\ IF question = ""
           THEN /\ Return(ErrorResult(Error("question_required", {}, {}), 400))
                /\ UNCHANGED <<q_index, q_corpus, cache, q_calls>>
           ELSE IF project \notin Projects
           THEN /\ Return(ErrorResult(Error("invalid_project", {}, {}), 400))
                /\ UNCHANGED <<q_index, q_corpus, cache, q_calls>>
           ELSE IF WebLoad(fs).err # NoError
           THEN /\ Return(Handled(WebLoad(fs).err, 500))
                /\ q_calls' = WithReads(q_calls, WebReads(fs))
                /\ UNCHANGED <<q_index, q_corpus, cache>>
           ELSE /\ q_index' = WebLoad(fs).index
                /\ q_corpus' = WebLoad(fs).corpus
                /\ cache' = [filled |-> TRUE, by |-> 1]
                /\ q_calls' = WithReads(q_calls, WebReads(fs))
                /\ q_pc' = "embed"
                /\ UNCHANGED q_result
    /\ UNCHANGED <<notQuery, fs, q_qdim, q_indices, q_hits, q_used, q_dedup, q_prompt>>

\* ollama_embed_texts([question]): the request fails in transport, the body
\* is not JSON, or a non-200 status or an empty "embeddings" raises;
\* otherwise the vector has the dimension of the embedding model.
Embed ==
    /\ q_pc = "embed"
    /\ \/ /\ \E type \in {"embed", "embed_transport", "embed_malformed"} :
                 Return(Handled(Error(type, {}, {}), Status(q_path, 500)))
          /\ UNCHANGED q_qdim
       \/ /\ \E d \in Dims : q_qdim' = d
          /\ q_pc' = "search"
          /\ UNCHANGED q_result
    /\ UNCHANGED <<notQuery, fs, cache, q_path, q_args, q_index, q_corpus, q_indices, q_hits,
                   q_used, q_dedup, q_prompt, q_calls>>

\* ask.py search(): the dimension test, then index.search.
AskSearch ==
    /\ q_pc = "search"
    /\ q_path = "ask"
    /\ IF q_qdim # q_index.d
       THEN /\ Return(Handled(Error("dim", {q_qdim, q_index.d}, {}), 0))
            /\ UNCHANGED <<q_indices, q_calls>>
       ELSE /\ q_calls' = [q_calls EXCEPT !.search = TRUE]
            /\ q_indices' \in SearchResults(q_index.ntotal, q_args.topk)
            /\ q_pc' = "collect"
            /\ UNCHANGED q_result
    /\ UNCHANGED <<notQuery, fs, cache, q_path, q_args, q_index, q_corpus, q_qdim, q_hits,
                   q_used, q_dedup, q_prompt>>

\* web.py line 171: index.search is called with the vector as it came; the
\* faiss wrapper asserts d == self.d and the AssertionError, whose message
\* is empty, becomes the 500 response.
WebSearch ==
    /\ q_pc = "search"
    /\ q_path = "web"
    /\ q_calls' = [q_calls EXCEPT !.search = TRUE]
    /\ IF q_qdim # q_index.d
       THEN /\ Return(Handled(Error("faiss_assert", {}, {}), 500))
            /\ UNCHANGED q_indices
       ELSE /\ q_indices' \in SearchResults(q_index.ntotal, q_args.topk)
            /\ q_pc' = "collect"
            /\ UNCHANGED q_result
    /\ UNCHANGED <<notQuery, fs, cache, q_path, q_args, q_index, q_corpus, q_qdim, q_hits,
                   q_used, q_dedup, q_prompt>>

\* From "Collect hits" to the call of the generation service: the bounds
\* checked loop, dedupe_by_source, the early return on no hits, build_prompt
\* (ask.py lines 175-195, web.py lines 173-197).
Collect ==
    /\ q_pc = "collect"
    /\ LET c == CollectHits(q_indices, q_corpus)
           d == dedupe_by_source(c.hits, q_args.cap)
       IN  /\ q_hits' = c.hits
           /\ q_used' = c.used
           /\ IF c.raised
              THEN /\ Return(Handled(Error("index_error", {}, {}),
                                      Status(q_path, 500)))
                   /\ q_calls' = [q_calls EXCEPT !.collect = TRUE]
                   /\ UNCHANGED <<q_dedup, q_prompt>>
              ELSE /\ q_dedup' = d
                   /\ IF NoHits(d)
                      THEN /\ Return(AnswerResult("no_context", <<>>, Status(q_path, 200)))
                           /\ q_calls' = [q_calls EXCEPT !.collect = TRUE]
                           /\ UNCHANGED q_prompt
                      ELSE /\ q_prompt' = build_prompt(d, DefaultMaxCtx).blocks
                           /\ q_calls' = [q_calls EXCEPT !.collect = TRUE,
                                                         !.prompt = TRUE]
                           /\ q_pc' = "generate"
                           /\ UNCHANGED q_result
    /\ UNCHANGED <<notQuery, fs, cache, q_path, q_args, q_index, q_corpus, q_qdim, q_indices>>

\* ollama_generate(prompt) and the composition of the answer with its
\* source URLs (ask.py lines 198-214, web.py lines 199-216).
Generate ==
    /\ q_pc = "generate"
    /\ q_calls' = [q_calls EXCEPT !.generate = TRUE]
    /\ \/ Return(Handled(Error("generate", {}, {}), Status(q_path, 500)))
       \/ Return(AnswerResult("llm", SourceUrls(q_dedup), Status(q_path, 200)))
    /\ UNCHANGED <<notQuery, fs, cache, q_path, q_args, q_index, q_corpus, q_qdim, q_indices,
                   q_hits, q_used, q_dedup, q_prompt>>


(***************************************************************************)
(* The process-wide cache of SUPPORT/web.py under concurrent requests.     *)
(* The route runs in one thread per request; load_index_and_corpus takes   *)
(* no lock, so its cache test, its two reads and its cache assignment      *)
(* interleave with those of the other threads.                             *)
(***************************************************************************)

NThreads == 3        \* concurrent requests for the same directory

Threads == 1..NThreads

CacheIdle ==
    /\ t_pc = [t \in Threads |-> "idle"]
    /\ t_pair = [t \in Threads |-> 0]
    /\ diskReads = 0
    /\ cacheWrites = 0

\* A served directory: 2 vectors, 2 corpus lines.
ServedDir ==
    [f \in Artifacts |->
        IF f = IndexFile THEN IndexContent(0, 2, 1024)
        ELSE IF f = CorpusFile THEN CorpusContent(0, LinesOf(<<TRUE, TRUE>>))
        ELSE Absent]

CacheInit ==
    /\ fs = ServedDir
    /\ cache = [filled |-> FALSE, by |-> 0]
    /\ t_pc = [t \in Threads |-> "call"]
    /\ t_pair = [t \in Threads |-> 0]
    /\ diskReads = 0
    /\ cacheWrites = 0

\* if cache_key in _cache: return _cache[cache_key]
CacheTest(t) ==
    /\ t_pc[t] = "call"
    /\ IF cache.filled
       THEN /\ t_pair' = [t_pair EXCEPT ![t] = cache.by]
            /\ t_pc' = [t_pc EXCEPT ![t] = "returned"]
       ELSE /\ t_pc' = [t_pc EXCEPT ![t] = "read_index"]
            /\ UNCHANGED t_pair
    /\ UNCHANGED <<cache, diskReads, cacheWrites, notCache>>

\* index = faiss.read_index(...)
CacheReadIndex(t) ==
    /\ t_pc[t] = "read_index"
    /\ diskReads' = diskReads + 1
    /\ t_pc' = [t_pc EXCEPT ![t] = "read_corpus"]
    /\ UNCHANGED <<cache, t_pair, cacheWrites, notCache>>

\* the for loop over the lines of corpus.jsonl
CacheReadCorpus(t) ==
    /\ t_pc[t] = "read_corpus"
    /\ t_pc' = [t_pc EXCEPT ![t] = "store"]
    /\ UNCHANGED <<cache, t_pair, diskReads, cacheWrites, notCache>>

\* _cache[cache_key] = (index, corpus); return index, corpus
CacheStore(t) ==
    /\ t_pc[t] = "store"
    /\ cache' = [filled |-> TRUE, by |-> t]
    /\ cacheWrites' = cacheWrites + 1
    /\ t_pair' = [t_pair EXCEPT ![t] = t]
    /\ t_pc' = [t_pc EXCEPT ![t] = "returned"]
    /\ UNCHANGED <<diskReads, notCache>>

(***************************************************************************)
(* Build runs: main() of SUPPORT/build/build_regard.py and of              *)
(* SQL/build/build_query.py, writing the output directory file by file,    *)
(* and a query process loading the directory meanwhile.                    *)
(***************************************************************************)

MaxRuns == 2         \* build runs in a behaviour
MaxChunks == 2       \* most chunks of a build
BatchSize == 1       \* EMBED_BATCH_SIZE of the runs of build_regard.py

\* The lengths a vector of a response may have: empty, or the dimension of
\* an embedding model.
VecLens == {0} \cup Dims

\* No index object yet.
NotBuilt == [built |-> FALSE, ntotal |-> 0, d |-> 0]

\* The texts of one request: build_regard.py sends chunk_texts[i:i+BATCH_SIZE],
\* build_query.py sends one text per request.
TextsPerRequest(kind) == IF kind = "regard" THEN BatchSize ELSE 1

\* The number of texts sent by the first k requests of a run over n chunks.
Sent(kind, n, k) ==
    IF k * TextsPerRequest(kind) < n THEN k * TextsPerRequest(kind) ELSE n

\* embeddings.extend(batch_embeddings) over the responses; out.append(v).
RECURSIVE Flatten(_)
Flatten(resps) ==
    IF resps = <<>> THEN <<>> ELSE Head(resps) \o Flatten(Tail(resps))

\* A faulty variant of the test for an empty input: it never holds.
NothingToIndexNever(n) == FALSE

\* if not files / if total_chunks == 0 (build_regard.py lines 240, 265);
\* if not files / if not chunks (build_query.py lines 218, 241).
NothingToIndex(n) == n = 0

\* The ways a request to the embedding service fails.
RequestFaults == {"transport", "status", "not_json", "no_field"}

\* A faulty variant of the request step: only a transport error ends the
\* run, any other failed request is passed over.
AbortsOnTransportOnly(fault) == fault = "transport"

\* embed_chunks re-raises the transport error, raises RuntimeError on a
\* non-200 status and on a body without "embeddings", and lets the decoding
\* error of resp.json() through; main() returns 1 on any of them.
\* embed_texts raises through raise_for_status, r.json() and the payload
\* test, and main() of build_query.py has no handler.
Aborts(fault) == fault \in RequestFaults

\* What a request for m texts may be answered with, once it has a body the
\* code accepts.  The service "model" sends one vector of its dimension per
\* text.  From the service "any", build_regard.py takes any list under
\* "embeddings": fewer or more vectors than texts, of any lengths;
\* build_query.py takes one vector, and its payload test has rejected the
\* empty one.
Responses(service, kind, m) ==
    IF service = "model" THEN {[i \in 1..m |-> d] : d \in Dims}
    ELSE IF kind = "regard" THEN SeqsUpTo(VecLens, m + 1)
    ELSE {<<d>> : d \in Dims}

\* build_regard.py lines 280-291: len(embeddings) == total_chunks, and
\* np.array(embeddings, dtype='float32') raises on rows of unequal length.
\* Rows that are all empty give an array of shape (n, 0), and
\* faiss.IndexFlatIP(0) takes it.
RegardShapeOk(vecs, n) ==
    /\ Len(vecs) = n
    /\ \A i, j \in DOMAIN vecs : vecs[i] = vecs[j]

\* build_query.py lines 204, 256-263: np.array and np.vstack raise on rows
\* of unequal length; X.shape[0] == len(chunks) and X.shape[1] != 0.
QueryShapeOk(vecs, n) ==
    /\ \A i, j \in DOMAIN vecs : vecs[i] = vecs[j]
    /\ Len(vecs) = n
    /\ \A i \in DOMAIN vecs : vecs[i] # 0

ShapeOk(kind, vecs, n) ==
    IF kind = "regard" THEN RegardShapeOk(vecs, n) ELSE QueryShapeOk(vecs, n)

BuildIdle ==
    /\ b_pc = "idle"
    /\ b_k = 0
    /\ b_kind = "none"
    /\ b_run = 0
    /\ b_chunks = 0
    /\ b_dim = 0
    /\ svc = "model"
    /\ b_resps = <<>>
    /\ b_calls = 0
    /\ b_fault = "none"
    /\ b_index = NotBuilt
    /\ b_status = "none"
    /\ fs_before = [f \in Artifacts |-> Absent]

LoaderIdle ==
    /\ l_pc = "idle"
    /\ l_index = NoIndex
    /\ l_corpus = <<>>
    /\ l_corpus_by = 0
    /\ l_after = [run |-> 0, status |-> "none"]

BuildInit ==
    /\ fs = [f \in Artifacts |-> Absent]
    /\ cache = [filled |-> FALSE, by |-> 0]
    /\ BuildIdle
    /\ LoaderIdle

\* Build runs against an embedding service that may answer with anything,
\* and no query process.
EmbedInit ==
    /\ fs = [f \in Artifacts |-> Absent]
    /\ cache = [filled |-> FALSE, by |-> 0]
    /\ b_pc = "idle"
    /\ b_k = 0
    /\ b_kind = "none"
    /\ b_run = 0
    /\ b_chunks = 0
    /\ b_dim = 0
    /\ svc = "any"
    /\ b_resps = <<>>
    /\ b_calls = 0
    /\ b_fault = "none"
    /\ b_index = NotBuilt
    /\ b_status = "none"
    /\ fs_before = [f \in Artifacts |-> Absent]
    /\ l_pc = "off"
    /\ l_index = NoIndex
    /\ l_corpus = <<>>
    /\ l_corpus_by = 0
    /\ l_after = [run |-> 0, status |-> "none"]

\* The files main() writes, in the order it writes them.
WriteOrder(kind) ==
    IF kind = "regard" THEN <<IndexFile, ChunksJson, CorpusFile, ManifestFile>>
    ELSE <<IndexFile, ChunksJson>>

\* What a successful write of file f leaves on disk.
Written(f, run, n, d) ==
    IF f = IndexFile THEN IndexContent(run, n, d)
    ELSE IF f = CorpusFile THEN CorpusContent(run, [i \in 1..n |-> GoodLine(i)])
    ELSE [exists |-> TRUE, whole |-> TRUE, by |-> run, ntotal |-> n, d |-> d,
          lines |-> <<>>]

\* The run ends: return 1 or an uncaught exception (failed), return 0 (ok),
\* or the plain return of build_query.py when there is nothing to index
\* (empty).
BuildEnds(status) ==
    /\ b_status' = status
    /\ b_pc' = "idle"
    /\ b_k' = 0

\* A run starts and goes up to the embedding call: scanning the input
\* directory, reading and chunking the files (build_regard.py lines 234-270,
\* build_query.py lines 208-245).  No directory, no file or no chunk ends
\* the run.
BuildStart ==
    /\ b_pc = "idle"
    /\ b_run < MaxRuns
    /\ b_run' = b_run + 1
    /\ fs_before' = fs
    /\ \E kind \in {"regard", "query"}, n \in 0..MaxChunks :
        /\ b_kind' = kind
        /\ b_chunks' = n
        /\ IF NothingToIndex(n)
           THEN BuildEnds(IF kind = "regard" THEN "failed" ELSE "empty")
           ELSE /\ b_pc' = "embed"
                /\ b_status' = "running"
                /\ UNCHANGED b_k
    /\ b_dim' = 0
    /\ b_resps' = <<>>
    /\ b_calls' = 0
    /\ b_fault' = "none"
    /\ b_index' = NotBuilt
    /\ UNCHANGED <<svc, fs, cache, lVars, notBuild>>

\* One request to the embedding service (build_regard.py lines 212-230,
\* build_query.py lines 192-203): it fails, which ends the run, or its
\* vectors are added to the list.
BuildEmbed ==
    /\ b_pc = "embed"
    /\ b_calls' = b_calls + 1
    /\ LET sent == Sent(b_kind, b_chunks, Len(b_resps))
           m == Sent(b_kind, b_chunks, Len(b_resps) + 1) - sent
       IN  \/ \E fault \in RequestFaults :
                 /\ b_fault' = fault
                 /\ IF Aborts(fault)
                    THEN /\ BuildEnds("failed")
                         /\ UNCHANGED b_resps
                    ELSE /\ b_resps' = Append(b_resps, <<>>)
                         /\ b_pc' = IF sent + m = b_chunks THEN "index" ELSE "embed"
                         /\ UNCHANGED <<b_k, b_status>>
           \/ \E r \in Responses(svc, b_kind, m) :
                 /\ b_resps' = Append(b_resps, r)
                 /\ b_pc' = IF sent + m = b_chunks THEN "index" ELSE "embed"
                 /\ UNCHANGED <<b_k, b_status, b_fault>>
    /\ UNCHANGED <<b_kind, b_run, b_chunks, b_dim, svc, b_index, fs_before, fs, cache,
                   lVars, notBuild>>

\* After the last request: the shape tests, the array of the vectors and
\* the index built from it (build_regard.py lines 280-291, build_query.py
\* lines 256-272).  A failed test or conversion ends the run.
BuildIndex ==
    /\ b_pc = "index"
    /\ LET vecs == Flatten(b_resps)
       IN  IF ShapeOk(b_kind, vecs, b_chunks)
           THEN /\ b_dim' = vecs[1]
                /\ b_index' = [built |-> TRUE, ntotal |-> Len(vecs), d |-> vecs[1]]
                /\ b_pc' = "write"
                /\ b_k' = 1
                /\ UNCHANGED b_status
           ELSE /\ BuildEnds("failed")
                /\ UNCHANGED <<b_dim, b_index>>
    /\ UNCHANGED <<b_kind, b_run, b_chunks, svc, b_resps, b_calls, b_fault, fs_before, fs,
                   cache, lVars, notBuild>>

\* One file of the run is written (build_regard.py lines 292-344,
\* build_query.py lines 275-277).  The write succeeds, or it fails before
\* the file is opened, or it fails after the file was opened for writing,
\* which leaves the file truncated; a failure ends the run.
BuildWrite ==
    /\ b_pc = "write"
    /\ LET f == WriteOrder(b_kind)[b_k]
       IN  \/ /\ fs' = [fs EXCEPT ![f] = Written(f, b_run, b_chunks, b_dim)]
              /\ IF b_k = Len(WriteOrder(b_kind))
                 THEN BuildEnds("ok")
                 ELSE /\ b_k' = b_k + 1
                      /\ UNCHANGED <<b_pc, b_status>>
           \/ /\ UNCHANGED fs
              /\ BuildEnds("failed")
           \/ /\ fs' = [fs EXCEPT ![f] = Truncated(b_run, <<>>)]
              /\ BuildEnds("failed")
    /\ UNCHANGED <<b_kind, b_run, b_chunks, b_dim, svc, b_resps, b_calls, b_fault, b_index,
                   fs_before, cache, lVars, notBuild>>

\* A query process starts load_index_and_corpus: ensure_files (ask.py lines
\* 39-46).
LoaderEnsure ==
    /\ l_pc = "idle"
    /\ IF MissingFiles(fs) # {}
       THEN l_pc' = "failed"
       ELSE l_pc' = "read_index"
    /\ l_after' = [run |-> b_run, status |-> b_status]
    /\ UNCHANGED <<l_index, l_corpus, l_corpus_by, fs, cache, bVars, notBuild>>

\* index = faiss.read_index(...) (ask.py line 47)
LoaderReadIndex ==
    /\ l_pc = "read_index"
    /\ IF ~fs[IndexFile].exists \/ ~fs[IndexFile].whole
       THEN /\ l_pc' = "failed"
            /\ UNCHANGED l_index
       ELSE /\ l_index' = ReadIndex(fs)
            /\ l_pc' = "read_corpus"
    /\ UNCHANGED <<l_corpus, l_corpus_by, l_after, fs, cache, bVars, notBuild>>

\* the lines of corpus.jsonl (ask.py lines 48-59)
LoaderReadCorpus ==
    /\ l_pc = "read_corpus"
    /\ IF ~fs[CorpusFile].exists
       THEN /\ l_pc' = "failed"
            /\ UNCHANGED <<l_corpus, l_corpus_by>>
       ELSE /\ l_corpus' = ReadCorpus(fs[CorpusFile].lines, 1)
            /\ l_corpus_by' = fs[CorpusFile].by
            /\ l_pc' = "loaded"
    /\ UNCHANGED <<l_index, l_after, fs, cache, bVars, notBuild>>

\* The query process is done; another one may start.
LoaderExit ==
    /\ l_pc \in {"loaded", "failed"}
    /\ l_pc' = "idle"
    /\ l_index' = NoIndex
    /\ l_corpus' = <<>>
    /\ l_corpus_by' = 0
    /\ l_after' = [run |-> 0, status |-> "none"]
    /\ UNCHANGED <<fs, cache, bVars, notBuild>>


(***************************************************************************)
(* Text.  A string is the sequence of its characters; the operators below  *)
(* are the str methods and slices the two chunkers use.                    *)
(***************************************************************************)

\* str.isspace for the characters that occur in the texts of the model.
IsSpace(c) == c \in {" ", "\t", "\n", "\r"}

\* s.lstrip()
RECURSIVE LStrip(_)
LStrip(s) == IF s # <<>> /\ IsSpace(Head(s)) THEN LStrip(Tail(s)) ELSE s

\* s.rstrip()
RECURSIVE RStrip(_)
RStrip(s) ==
    IF s # <<>> /\ IsSpace(s[Len(s)]) THEN RStrip(SubSeq(s, 1, Len(s) - 1)) ELSE s

\* s.strip()
Strip(s) == LStrip(RStrip(s))

\* s.startswith(p)
StartsWith(s, p) == Len(s) >= Len(p) /\ SubSeq(s, 1, Len(p)) = p

\* s.endswith(p)
EndsWith(s, p) == Len(s) >= Len(p) /\ SubSeq(s, Len(s) - Len(p) + 1, Len(s)) = p

\* text.split(): the maximal runs of characters that are not whitespace.
RECURSIVE SplitLoop(_, _, _, _)
SplitLoop(text, i, word, words) ==
    IF i > Len(text)
    THEN IF word = <<>> THEN words ELSE Append(words, word)
    ELSE IF IsSpace(text[i])
    THEN SplitLoop(text, i + 1, <<>>, IF word = <<>> THEN words ELSE Append(words, word))
    ELSE SplitLoop(text, i + 1, Append(word, text[i]), words)

Split(text) == SplitLoop(text, 1, <<>>, <<>>)

\* sep.join(parts)
RECURSIVE Join(_, _)
Join(sep, parts) ==
    IF parts = <<>> THEN <<>>
    ELSE IF Len(parts) = 1 THEN parts[1]
    ELSE parts[1] \o sep \o Join(sep, Tail(parts))

\* s[-k:] for k >= 0: the last k characters, the whole of s when it has no
\* more than k, and the whole of s when k is 0, since -0 is 0.
LastChars(s, k) ==
    IF k = 0 \/ k >= Len(s) THEN s ELSE SubSeq(s, Len(s) - k + 1, Len(s))

\* A faulty variant of the truth test of a str: every str passes.
TruthyAlways(s) == TRUE

\* if chunk: / if tail / if c: a str is true when it is not empty.
Truthy(s) == s # <<>>

\* The number of characters of s that are not whitespace.
RECURSIVE NonSpaceCount(_)
NonSpaceCount(s) ==
    IF s = <<>> THEN 0
    ELSE (IF IsSpace(Head(s)) THEN 0 ELSE 1) + NonSpaceCount(Tail(s))

(***************************************************************************)
(* Word-window mode: chunk_text of SQL/build/build_query.py.               *)
(***************************************************************************)

MaxText == 9        \* longest text handed to chunk_text

\* The characters of the texts handed to chunk_text.
WindowChars == {"a", "b", " "}

\* The settings chunk_tokens and chunk_overlap of config/app.yaml tried.
WindowConfigs ==
    {[chunk_tokens |-> 1, overlap |-> 0],
     [chunk_tokens |-> 1, overlap |-> 1],
     [chunk_tokens |-> 2, overlap |-> 1]}

\* The for loop of chunk_text from word i on.  out, cur and cur_chars are
\* the locals of the code; tails collects the tail after each append.
RECURSIVE ChunkTextLoop(_, _, _, _, _, _, _, _)
ChunkTextLoop(words, i, out, tails, cur, cur_chars, max_chars, overlap_chars) ==
    IF i > Len(words) THEN [out |-> out, tails |-> tails, cur |-> cur]
    ELSE LET w == words[i]
         IN  IF cur_chars + Len(w) + 1 > max_chars
             THEN LET chunk == Strip(Join(<<" ">>, cur))
                      tail == IF Truthy(chunk) THEN LastChars(chunk, overlap_chars)
                              ELSE <<>>
                  IN  ChunkTextLoop(words, i + 1,
                          IF Truthy(chunk) THEN Append(out, chunk) ELSE out,
                          IF Truthy(chunk) THEN Append(tails, tail) ELSE tails,
                          Append(IF Truthy(tail) THEN <<tail>> ELSE <<>>, w),
                          Len(tail) + Len(w) + 1,
                          max_chars, overlap_chars)
             ELSE ChunkTextLoop(words, i + 1, out, tails, Append(cur, w),
                                cur_chars + Len(w) + 1, max_chars, overlap_chars)

\* chunk_text(text, chunk_tokens, overlap): the returned list, and the
\* tails seeded on the way.
chunk_text(text, chunk_tokens, overlap) ==
    IF ~Truthy(text) THEN [out |-> <<>>, tails |-> <<>>]
    ELSE LET r == ChunkTextLoop(Split(text), 1, <<>>, <<>>, <<>>, 0,
                                chunk_tokens * 4, overlap * 4)
             out == IF r.cur # <<>>
                    THEN Append(r.out, Strip(Join(<<" ">>, r.cur)))
                    ELSE r.out
         IN  [out |-> SelectSeq(out, Truthy), tails |-> r.tails]

WindowIdle ==
    /\ ct_pc = "idle"
    /\ ct_text = <<>>
    /\ ct_chunk_tokens = 0
    /\ ct_overlap = 0
    /\ ct_out = <<>>
    /\ ct_tails = <<>>

WindowInit ==
    /\ ct_pc = "input"
    /\ ct_text \in SeqsUpTo(WindowChars, MaxText)
    /\ \E c \in WindowConfigs :
           /\ ct_chunk_tokens = c.chunk_tokens
           /\ ct_overlap = c.overlap
    /\ ct_out = <<>>
    /\ ct_tails = <<>>

\* parts = chunk_text(text, CHUNK_TOKENS, CHUNK_OVERLAP)
ChunkTextCall ==
    /\ ct_pc = "input"
    /\ ct_out' = chunk_text(ct_text, ct_chunk_tokens, ct_overlap).out
    /\ ct_tails' = chunk_text(ct_text, ct_chunk_tokens, ct_overlap).tails
    /\ ct_pc' = "done"
    /\ UNCHANGED <<ct_text, ct_chunk_tokens, ct_overlap, notWindow>>

(***************************************************************************)
(* Heading-aware mode: split_markdown_to_chunks of                         *)
(* SUPPORT/build/build_regard.py.                                          *)
(***************************************************************************)

MaxDocLines == 4     \* most lines of a document

\* The character U+0060 of a code fence, which a string of this language
\* cannot hold: one character as every other element of a text.
Tick == "tick"

\* The file name the documents of SpecChunk are split under.
FileName == <<"f", ".", "m", "d">>

\* os.path.basename(path): what follows the last "/".
RECURSIVE Basename(_)
Basename(path) ==
    IF \E i \in DOMAIN path : path[i] = "/"
    THEN Basename(Tail(path))
    ELSE path

\* The lines documents are made of: blank, H1, H2, a line that starts with
\* "#" and is no heading, a code fence, prose that ends a sentence, prose
\* that ends in a hyphen, a list item, a line that ends in "\r".
DocLines ==
    {<<>>,
     <<"#", " ", "T">>,
     <<"#", "#", " ", "U">>,
     <<"#", "x">>,
     <<Tick, Tick, Tick>>,
     <<"a", "b", ".">>,
     <<"c", "-">>,
     <<"-", " ", "i">>,
     <<"d", "\r">>}

\* The settings CHUNK_CHAR_LIMIT and CHUNK_OVERLAP_CHARS of the
\* environment tried.
MarkdownConfigs ==
    {[limit |-> 6, overlap |-> 2],
     [limit |-> 6, overlap |-> 0],
     [limit |-> 6, overlap |-> 8],
     [limit |-> 7, overlap |-> 4]}

\* text.replace("\r\n", "\n")
RECURSIVE ReplaceCRLF(_)
ReplaceCRLF(t) ==
    IF t = <<>> THEN <<>>
    ELSE IF Len(t) >= 2 /\ t[1] = "\r" /\ t[2] = "\n"
    THEN <<"\n">> \o ReplaceCRLF(SubSeq(t, 3, Len(t)))
    ELSE <<t[1]>> \o ReplaceCRLF(Tail(t))

\* The length of the run of characters in set cs at the head of t.
RECURSIVE RunLen(_, _)
RunLen(t, cs) == IF t # <<>> /\ Head(t) \in cs THEN 1 + RunLen(Tail(t), cs) ELSE 0

\* re.sub(r"\n{3,}", "\n\n", text)
RECURSIVE CollapseNewlines(_)
CollapseNewlines(t) ==
    IF t = <<>> THEN <<>>
    ELSE IF Head(t) = "\n"
    THEN LET n == RunLen(t, {"\n"})
         IN  (IF n >= 3 THEN <<"\n", "\n">> ELSE SubSeq(t, 1, n))
                 \o CollapseNewlines(SubSeq(t, n + 1, Len(t)))
    ELSE <<Head(t)>> \o CollapseNewlines(Tail(t))

\* text.split("\n"): the pieces between the newlines, empty ones included.
RECURSIVE SplitLinesLoop(_, _, _, _)
SplitLinesLoop(text, i, line, lines) ==
    IF i > Len(text) THEN Append(lines, line)
    ELSE IF text[i] = "\n" THEN SplitLinesLoop(text, i + 1, <<>>, Append(lines, line))
    ELSE SplitLinesLoop(text, i + 1, Append(line, text[i]), lines)

SplitLines(text) == SplitLinesLoop(text, 1, <<>>, <<>>)

\* The locals of split_markdown_to_chunks before the first line; h[n] is
\* current_hn, empty for None.
StartOfScan(file_name) ==
    [in_code |-> FALSE, code_buffer |-> <<>>, current_paragraph |-> <<>>,
     h |-> [n \in 1..6 |-> <<>>], file_name |-> file_name, chunks |-> <<>>, dropped |-> <<>>]

\* The chunk dict made under the heading context of st.
ChunkOf(st, text) ==
    [file |-> Basename(st.file_name),
     title |-> IF Truthy(st.h[1]) THEN st.h[1] ELSE Basename(st.file_name),
     headings |-> SelectSeq(<<st.h[2], st.h[3], st.h[4], st.h[5], st.h[6]>>, Truthy),
     text |-> text]

\* finalize_paragraph()
finalize_paragraph(st) ==
    LET paragraph_text == Strip(st.current_paragraph)
    IN  IF paragraph_text = <<>> THEN st
        ELSE [st EXCEPT !.chunks = Append(@, ChunkOf(st, paragraph_text)),
                        !.current_paragraph = <<>>]

\* if current_paragraph.strip(): finalize_paragraph()
FinalizeIfAny(st) ==
    IF Truthy(Strip(st.current_paragraph)) THEN finalize_paragraph(st) ELSE st

\* re.match(r"^(#{1,6})\s+(.*)", stripped) on a line that starts with "#":
\* the level and the heading text, level 0 when there is no match.
HeaderMatch(stripped) ==
    LET k == RunLen(stripped, {"#"})
    IN  IF k <= 6 /\ Len(stripped) > k /\ IsSpace(stripped[k + 1])
        THEN [level |-> k, text |-> Strip(SubSeq(stripped, k + 1, Len(stripped)))]
        ELSE [level |-> 0, text |-> <<>>]

\* A faulty variant of the heading update: the deeper levels are kept.
WithHeadingKeepDeeper(h, level, text) ==
    [n \in 1..6 |-> IF n = level THEN text ELSE h[n]]

\* The heading context after a heading of the given level.
WithHeading(h, level, text) ==
    [n \in 1..6 |-> IF n = level THEN text ELSE IF n > level THEN <<>> ELSE h[n]]

\* The characters \d matches among those of the model's texts.
DigitChars == {"0", "1", "2", "3", "4", "5", "6", "7", "8", "9"}

\* The test for a list item on line.lstrip(): "-", "*" or
\* re.match(r"^\d+\.", ...).
IsListItem(l) ==
    \/ StartsWith(l, <<"-">>)
    \/ StartsWith(l, <<"*">>)
    \/ (RunLen(l, DigitChars) >= 1
        /\ Len(l) > RunLen(l, DigitChars)
        /\ l[RunLen(l, DigitChars) + 1] = ".")

\* The body of the loop over the lines for one line.
LineStep(st, line) ==
    LET stripped == Strip(line)
        cp == st.current_paragraph
        nl == IF Truthy(cp) THEN <<"\n">> ELSE <<>>
    IN  IF ~st.in_code /\ StartsWith(stripped, <<"#">>)
        THEN LET f == FinalizeIfAny(st)
                 m == HeaderMatch(stripped)
             IN  [f EXCEPT !.h = IF m.level > 0 THEN WithHeading(@, m.level, m.text)
                                 ELSE @,
                           !.dropped = Append(@, stripped)]
        ELSE IF StartsWith(stripped, <<Tick, Tick, Tick>>)
        THEN IF ~st.in_code
             THEN [FinalizeIfAny(st) EXCEPT !.in_code = TRUE, !.code_buffer = stripped]
             ELSE LET code == st.code_buffer \o <<"\n">> \o stripped
                  IN  [st EXCEPT
                          !.chunks = IF Truthy(Strip(code))
                                     THEN Append(@, ChunkOf(st, code)) ELSE @,
                          !.code_buffer = <<>>,
                          !.in_code = FALSE]
        ELSE IF st.in_code
        THEN [st EXCEPT !.code_buffer = @ \o <<"\n">> \o line]
        ELSE IF stripped = <<>>
        THEN FinalizeIfAny(st)
        ELSE IF IsListItem(LStrip(line))
        THEN [st EXCEPT !.current_paragraph = @ \o nl \o stripped]
        ELSE IF StartsWith(stripped, <<"|">>)
        THEN [st EXCEPT !.current_paragraph = @ \o nl \o line]
        ELSE IF EndsWith(cp, <<"-">>)
        THEN [st EXCEPT !.current_paragraph = @ \o stripped]
        ELSE [st EXCEPT !.current_paragraph =
                            @ \o (IF Truthy(cp) THEN <<" ">> ELSE <<>>) \o stripped]

\* for line in lines: ..., from line i on, and the finalize after the loop.
\* A code block still open at the end is in no chunk.
RECURSIVE ScanLines(_, _, _)
ScanLines(lines, i, st) ==
    IF i > Len(lines)
    THEN LET f == FinalizeIfAny(st)
         IN  IF f.in_code THEN [f EXCEPT !.dropped = Append(@, f.code_buffer)] ELSE f
    ELSE ScanLines(lines, i + 1, LineStep(st, lines[i]))

\* re.split(r'(?<=[.!?])\s+', text): the pieces between the runs of
\* whitespace that follow ".", "!" or "?", empty ones included.
RECURSIVE SentenceLoop(_, _, _, _)
SentenceLoop(text, i, piece, pieces) ==
    IF i > Len(text) THEN Append(pieces, piece)
    ELSE IF IsSpace(text[i]) /\ i > 1 /\ text[i - 1] \in {".", "!", "?"}
    THEN SentenceLoop(text,
             i + RunLen(SubSeq(text, i, Len(text)), {" ", "\t", "\n", "\r"}),
             <<>>, Append(pieces, piece))
    ELSE SentenceLoop(text, i + 1, Append(piece, text[i]), pieces)

SplitSentences(text) == SentenceLoop(text, 1, <<>>, <<>>)

\* refined_chunks.append(...) of a copy of chunk with the given text; the
\* trace keeps where the chunk came from and the overlap it was started with.
Emit(acc, chunk, parent, text, seed) ==
    [out |-> Append(acc.out, [chunk EXCEPT !.text = text]),
     trace |-> Append(acc.trace, [parent |-> parent, seed |-> seed])]

\* for sentence in sentences: ..., from sentence i on, with sub_chunk_text
\* = sub, and the append after the loop.
RECURSIVE ResplitLoop(_, _, _, _, _, _, _, _, _)
ResplitLoop(chunk, parent, sentences, i, sub, seed, acc, limit, overlap_chars) ==
    IF i > Len(sentences)
    THEN LET t == Strip(sub)
         IN  IF Truthy(t) THEN Emit(acc, chunk, parent, t, seed) ELSE acc
    ELSE LET sentence == sentences[i]
         IN  IF ~Truthy(sentence)
             THEN ResplitLoop(chunk, parent, sentences, i + 1, sub, seed, acc,
                              limit, overlap_chars)
             ELSE IF Truthy(sub) /\ Len(sub) + Len(sentence) > limit
             THEN LET t == Strip(sub)
                      overlap == IF overlap_chars > 0 /\ Len(t) > 0
                                 THEN LastChars(t, overlap_chars) ELSE <<>>
                  IN  ResplitLoop(chunk, parent, sentences, i + 1,
                          overlap \o <<" ">> \o sentence, overlap,
                          IF Truthy(t) THEN Emit(acc, chunk, parent, t, seed) ELSE acc,
                          limit, overlap_chars)
             ELSE ResplitLoop(chunk, parent, sentences, i + 1,
                      sub \o <<" ">> \o sentence, seed, acc, limit, overlap_chars)

\* for chunk in chunks: ..., from chunk i on.
RECURSIVE RefineLoop(_, _, _, _, _)
RefineLoop(chunks, i, acc, limit, overlap_chars) ==
    IF i > Len(chunks) THEN acc
    ELSE RefineLoop(chunks, i + 1,
             IF Len(chunks[i].text) <= limit
             THEN Emit(acc, chunks[i], i, chunks[i].text, <<>>)
             ELSE ResplitLoop(chunks[i], i, SplitSentences(chunks[i].text), 1,
                              <<>>, <<>>, acc, limit, overlap_chars),
             limit, overlap_chars)

\* split_markdown_to_chunks(text, file_name) under the settings limit and
\* overlap_chars: the chunks of the loop over the lines, the refined
\* chunks returned, their trace and the texts left out.
split_markdown_to_chunks(text, file_name, limit, overlap_chars) ==
    LET lines == SplitLines(CollapseNewlines(ReplaceCRLF(text)))
        st == ScanLines(lines, 1, StartOfScan(file_name))
        r == RefineLoop(st.chunks, 1, [out |-> <<>>, trace |-> <<>>],
                        limit, overlap_chars)
    IN  [chunks |-> st.chunks, out |-> r.out, trace |-> r.trace,
         dropped |-> st.dropped]

\* The documents tried: up to MaxDocLines lines joined by newlines.
Documents ==
    {Join(<<"\n">>, ls) : ls \in UNION {[1..n -> DocLines] : n \in 0..MaxDocLines}}

MarkdownInit ==
    /\ md_pc = "ready"
    /\ md_text \in Documents
    /\ \E c \in MarkdownConfigs : md_limit = c.limit /\ md_overlap = c.overlap
    /\ md_chunks = <<>>
    /\ md_out = <<>>
    /\ md_trace = <<>>
    /\ md_dropped = <<>>

SplitMarkdownCall ==
    /\ md_pc = "ready"
    /\ LET r == split_markdown_to_chunks(md_text, FileName, md_limit, md_overlap)
       IN  /\ md_chunks' = r.chunks
           /\ md_out' = r.out
           /\ md_trace' = r.trace
           /\ md_dropped' = r.dropped
    /\ md_pc' = "done"
    /\ UNCHANGED <<md_text, md_limit, md_overlap, notMarkdown>>

MarkdownIdle ==
    /\ md_pc = "idle"
    /\ md_text = <<>>
    /\ md_limit = 0
    /\ md_overlap = 0
    /\ md_chunks = <<>>
    /\ md_out = <<>>
    /\ md_trace = <<>>
    /\ md_dropped = <<>>

(***************************************************************************)
(* The loop of split_markdown_to_chunks over the lines, one line a step.   *)
(***************************************************************************)

MaxScanLines == 4    \* most lines of a document scanned line by line

\* The lines of the documents scanned line by line: headings of three
\* levels, a line that starts with "#" and is no heading, a code fence,
\* prose, a blank line.
ScanDocLines ==
    {<<>>,
     <<"#", " ", "T">>,
     <<"#", "#", " ", "U">>,
     <<"#", "#", "#", " ", "V">>,
     <<"#", "x">>,
     <<Tick, Tick, Tick>>,
     <<"a", "b", ".">>}

ScanIdle ==
    /\ ln_pc = "idle"
    /\ ln_lines = <<>>
    /\ ln_pos = 0
    /\ ln_st = StartOfScan(<<>>)

\* The locals after lines 30-44, for a document of up to MaxScanLines lines.
ScanInit ==
    /\ ln_pc = "scan"
    /\ \E ls \in SeqsUpTo(ScanDocLines, MaxScanLines) :
           ln_lines = SplitLines(CollapseNewlines(ReplaceCRLF(Join(<<"\n">>, ls))))
    /\ ln_pos = 1
    /\ ln_st = StartOfScan(FileName)

\* One pass of for line in lines.
ScanLine ==
    /\ ln_pc = "scan"
    /\ ln_pos <= Len(ln_lines)
    /\ ln_st' = LineStep(ln_st, ln_lines[ln_pos])
    /\ ln_pos' = ln_pos + 1
    /\ UNCHANGED <<ln_pc, ln_lines, notScan>>

\* The finalize after the loop.
ScanEnd ==
    /\ ln_pc = "scan"
    /\ ln_pos > Len(ln_lines)
    /\ ln_st' = ScanLines(ln_lines, ln_pos, ln_st)
    /\ ln_pc' = "done"
    /\ UNCHANGED <<ln_lines, ln_pos, notScan>>

(***************************************************************************)
(* The loop of main over the input files: build_regard.py lines 238-263    *)
(* and build_query.py lines 212-239, and the writing of the records.  The  *)
(* embedding between the loop and the writing is the deterministic one of  *)
(* a rebuild and succeeds.                                                  *)
(***************************************************************************)

MaxFiles == 2        \* most files of the input directory
MaxBuilds == 2       \* build runs over the same directory

Uppers ==
    <<"A", "B", "C", "D", "E", "F", "G", "H", "I", "J", "K", "L", "M",
      "N", "O", "P", "Q", "R", "S", "T", "U", "V", "W", "X", "Y", "Z">>

Lowers ==
    <<"a", "b", "c", "d", "e", "f", "g", "h", "i", "j", "k", "l", "m",
      "n", "o", "p", "q", "r", "s", "t", "u", "v", "w", "x", "y", "z">>

\* The characters of file names in the order of their code points.
CodeOrder == <<".", "/">> \o Uppers \o <<"_">> \o Lowers

Rank(c) == CHOOSE i \in DOMAIN CodeOrder : CodeOrder[i] = c

\* s < t for two str: the order list.sort() uses.
RECURSIVE StrLess(_, _)
StrLess(s, t) ==
    IF t = <<>> THEN FALSE
    ELSE IF s = <<>> THEN TRUE
    ELSE IF Head(s) = Head(t) THEN StrLess(Tail(s), Tail(t))
    ELSE Rank(Head(s)) < Rank(Head(t))

\* sorted with x put in its place.
RECURSIVE Insert(_, _)
Insert(x, sorted) ==
    IF sorted = <<>> THEN <<x>>
    ELSE IF StrLess(x, Head(sorted)) THEN <<x>> \o sorted
    ELSE <<Head(sorted)>> \o Insert(x, Tail(sorted))

\* files.sort()
RECURSIVE Sort(_)
Sort(s) == IF s = <<>> THEN <<>> ELSE Insert(Head(s), Sort(Tail(s)))

\* s.lower()
Lower(s) ==
    [i \in DOMAIN s |->
        IF \E k \in DOMAIN Uppers : Uppers[k] = s[i]
        THEN Lowers[CHOOSE k \in DOMAIN Uppers : Uppers[k] = s[i]]
        ELSE s[i]]

\* The position of the last "." of name, 0 when there is none.
LastDot(name) ==
    IF \E i \in DOMAIN name : name[i] = "."
    THEN CHOOSE i \in DOMAIN name :
             name[i] = "." /\ \A j \in DOMAIN name : j > i => name[j] # "."
    ELSE 0

\* os.path.splitext(name)[0]: the name without its extension; leading dots
\* start no extension.
Stem(name) ==
    IF LastDot(name) > 0 /\ \E j \in 1..(LastDot(name) - 1) : name[j] # "."
    THEN SubSeq(name, 1, LastDot(name) - 1)
    ELSE name

\* Path(name).suffix
PathSuffix(name) ==
    IF LastDot(name) > 1 /\ LastDot(name) < Len(name)
    THEN SubSeq(name, LastDot(name), Len(name))
    ELSE <<>>

\* A faulty variant of the id: the index is left out.
RegardIdNoIndex(file, idx) == <<"i", "d">>

DecimalDigits == <<"0", "1", "2", "3", "4", "5", "6", "7", "8", "9">>

\* str(idx)
RECURSIVE ToDecimal(_)
ToDecimal(n) ==
    IF n < 10 THEN <<DecimalDigits[n + 1]>>
    ELSE ToDecimal(n \div 10) \o <<DecimalDigits[(n % 10) + 1]>>

\* f.endswith(".md") or f.endswith(".markdown")
IsMarkdownName(f) ==
    \/ EndsWith(f, <<".", "m", "d">>)
    \/ EndsWith(f, <<".", "m", "a", "r", "k", "d", "o", "w", "n">>)

\* exts of build_query.main, python-docx not installed.
Exts ==
    {<<".", "p", "d", "f">>, <<".", "m", "d">>,
     <<".", "m", "a", "r", "k", "d", "o", "w", "n">>,
     <<".", "t", "x", "t">>, <<".", "l", "o", "g">>,
     <<".", "h", "t", "m", "l">>, <<".", "h", "t", "m">>,
     <<".", "c", "s", "v">>, <<".", "s", "q", "l">>}

\* p.suffix.lower() in exts
InExts(name) == Lower(PathSuffix(name)) \in Exts

\* The extensions load_any reads with load_txt.
PlainText(name) == Lower(PathSuffix(name)) \in {<<".", "t", "x", "t">>, <<".", "l", "o", "g">>}

\* The file names tried.
Names ==
    {<<"b", ".", "m", "d">>,
     <<"a", ".", "m", "d">>,
     <<"a", ".", "m", "a", "r", "k", "d", "o", "w", "n">>,
     <<"n", ".", "t", "x", "t">>,
     <<"m", ".", "T", "X", "T">>,
     <<"k", ".", "p", "y">>}

\* The texts of the files tried: no chunk, two paragraphs, one paragraph
\* over the limit.
IngestDocs ==
    {<<>>,
     <<"a", "b", ".", "\n", "\n", "c", "-">>,
     <<"a", "b", ".", " ", "a", "b", ".", " ", "a", "b", ".">>}

\* A file of the directory: its text, or a file that cannot be read.
Contents ==
    {[readable |-> FALSE, text |-> <<>>]}
        \cup {[readable |-> TRUE, text |-> d] : d \in IngestDocs}

\* The settings of the two builders in the runs of SpecIngest.
IngestSettings == [limit |-> 6, overlap_chars |-> 2, chunk_tokens |-> 1, overlap |-> 1]

\* The orders a file system can list the files of set S in.
Orders(S) == {p \in [1..Cardinality(S) -> S] : \A x \in S : \E i \in DOMAIN p : p[i] = x}

\* f"{base_id}_{idx}"
RegardId(file, idx) == Stem(Basename(file)) \o <<"_">> \o ToDecimal(idx)

\* f"{path.name}::chunk_{idx}"
QueryId(name, idx) ==
    name \o <<":", ":", "c", "h", "u", "n", "k", "_">> \o ToDecimal(idx)

\* The record appended for part number idx (from 0) of a file.  The dict
\* of build_query has the keys text, source and chunk_id: they are the
\* fields text, file and id here.
RecordOf(builder, file, idx, part) ==
    IF builder = "regard"
    THEN [file |-> part.file, title |-> part.title, headings |-> part.headings,
          text |-> part.text, id |-> RegardId(file, idx)]
    ELSE [file |-> <<"d", "/">> \o file, title |-> <<>>, headings |-> <<>>,
          text |-> part, id |-> QueryId(file, idx)]

\* What the chunker of the builder returns for a file of the directory.
PartsOf(builder, file, text) ==
    IF builder = "regard"
    THEN split_markdown_to_chunks(text, file, IngestSettings.limit,
                                  IngestSettings.overlap_chars).out
    ELSE chunk_text(CollapseNewlines(text), IngestSettings.chunk_tokens,
                    IngestSettings.overlap).out

NoRun == [ended |-> FALSE, wrote |-> FALSE, records |-> <<>>]

IngestIdle ==
    /\ i_pc = "idle"
    /\ i_builder = "regard"
    /\ i_dir = <<>>
    /\ i_run = 0
    /\ i_listing = <<>>
    /\ i_files = <<>>
    /\ i_pos = 0
    /\ i_all = <<>>
    /\ i_emitted = <<>>
    /\ i_written = <<>>

\* A directory of up to MaxFiles files.  build_query gets files load_any
\* reads as plain text: load_md renders through libraries outside the
\* repository.
IngestInit ==
    /\ i_pc = "start"
    /\ i_builder \in {"regard", "query"}
    /\ \E N \in SUBSET Names :
           /\ Cardinality(N) <= MaxFiles
           /\ i_builder = "query" => \A f \in N : PlainText(f) \/ ~InExts(f)
           /\ i_dir \in [N -> Contents]
    /\ i_run = 1
    /\ i_listing = <<>>
    /\ i_files = <<>>
    /\ i_pos = 0
    /\ i_all = <<>>
    /\ i_emitted = <<>>
    /\ i_written = [r \in 1..MaxBuilds |-> NoRun]

\* os.listdir and the filter, with files.sort() in build_regard;
\* DOCS_DIR.rglob("*") and the filter in build_query.  No file: return.
IngestList ==
    /\ i_pc = "start"
    /\ \E order \in Orders(DOMAIN i_dir) :
           /\ i_listing' = order
           /\ i_files' = IF i_builder = "regard"
                         THEN Sort(SelectSeq(order, IsMarkdownName))
                         ELSE SelectSeq(order, InExts)
    /\ i_pos' = 1
    /\ i_all' = <<>>
    /\ i_emitted' = <<>>
    /\ i_pc' = IF i_files' = <<>> THEN "ended" ELSE "scan"
    /\ i_written' = IF i_files' = <<>>
                    THEN [i_written EXCEPT ![i_run] = [NoRun EXCEPT !.ended = TRUE]]
                    ELSE i_written
    /\ UNCHANGED <<i_builder, i_dir, i_run, notIngest>>

\* One pass of for file in files: read, split, number and append the chunks;
\* a file that cannot be read is skipped.
IngestFile ==
    /\ i_pc = "scan"
    /\ i_pos <= Len(i_files)
    /\ LET file == i_files[i_pos]
           parts == PartsOf(i_builder, file, i_dir[file].text)
       IN  IF i_dir[file].readable
           THEN /\ i_all' = i_all \o [k \in 1..Len(parts) |->
                                        RecordOf(i_builder, file, k - 1, parts[k])]
                /\ i_emitted' = Append(i_emitted, [file |-> file, parts |-> parts])
           ELSE UNCHANGED <<i_all, i_emitted>>
    /\ i_pos' = i_pos + 1
    /\ UNCHANGED <<i_pc, i_builder, i_dir, i_run, i_listing, i_files, i_written, notIngest>>

\* After the loop: return when there is no chunk, else write the records in
\* the order of all_chunks (corpus.jsonl, chunks.json).
IngestWrite ==
    /\ i_pc = "scan"
    /\ i_pos > Len(i_files)
    /\ i_written' = [i_written EXCEPT ![i_run] =
                        [ended |-> TRUE, wrote |-> i_all # <<>>, records |-> i_all]]
    /\ i_pc' = "ended"
    /\ UNCHANGED <<i_builder, i_dir, i_run, i_listing, i_files, i_pos, i_all, i_emitted, notIngest>>

\* The build is run again over the same directory.
IngestRerun ==
    /\ i_pc = "ended"
    /\ i_run < MaxBuilds
    /\ i_run' = i_run + 1
    /\ i_pc' = "start"
    /\ UNCHANGED <<i_builder, i_dir, i_listing, i_files, i_pos, i_all, i_emitted, i_written, notIngest>>

(***************************************************************************)
(* Specifications.                                                         *)
(***************************************************************************)

\* The directory and the cache when no specification uses them.
DiskIdle ==
    /\ fs = [f \in Artifacts |-> Absent]
    /\ cache = [filled |-> FALSE, by |-> 0]

InitDedupe ==
    /\ DedupeInit /\ PromptIdle /\ QueryIdle /\ DiskIdle /\ CacheIdle /\ BuildIdle /\ LoaderIdle
    /\ WindowIdle /\ MarkdownIdle /\ IngestIdle /\ ScanIdle
NextDedupe == DedupeCall
SpecDedupe == InitDedupe /\ [][NextDedupe]_vars

InitPrompt ==
    /\ PromptInit /\ DedupeIdle /\ QueryIdle /\ DiskIdle /\ CacheIdle /\ BuildIdle /\ LoaderIdle
    /\ WindowIdle /\ MarkdownIdle /\ IngestIdle /\ ScanIdle
NextPrompt == PromptCall
SpecPrompt == InitPrompt /\ [][NextPrompt]_vars

InitQuery ==
    /\ QueryInit /\ DedupeIdle /\ PromptIdle /\ CacheIdle /\ BuildIdle /\ LoaderIdle
    /\ WindowIdle /\ MarkdownIdle /\ IngestIdle /\ ScanIdle
NextQuery ==
    \/ AskStart
    \/ WebStart
    \/ Embed
    \/ AskSearch
    \/ WebSearch
    \/ Collect
    \/ Generate
SpecQuery == InitQuery /\ [][NextQuery]_vars

InitCache ==
    /\ CacheInit /\ DedupeIdle /\ PromptIdle /\ QueryIdle /\ BuildIdle /\ LoaderIdle
    /\ WindowIdle /\ MarkdownIdle /\ IngestIdle /\ ScanIdle
NextCache ==
    \E t \in Threads :
        \/ CacheTest(t)
        \/ CacheReadIndex(t)
        \/ CacheReadCorpus(t)
        \/ CacheStore(t)
SpecCache == InitCache /\ [][NextCache]_vars

InitBuild ==
    /\ BuildInit /\ DedupeIdle /\ PromptIdle /\ QueryIdle /\ CacheIdle
    /\ WindowIdle /\ MarkdownIdle /\ IngestIdle /\ ScanIdle
NextBuild ==
    \/ BuildStart
    \/ BuildEmbed
    \/ BuildIndex
    \/ BuildWrite
    \/ LoaderEnsure
    \/ LoaderReadIndex
    \/ LoaderReadCorpus
    \/ LoaderExit
SpecBuild == InitBuild /\ [][NextBuild]_vars

InitEmbed ==
    /\ EmbedInit /\ DedupeIdle /\ PromptIdle /\ QueryIdle /\ CacheIdle
    /\ WindowIdle /\ MarkdownIdle /\ IngestIdle /\ ScanIdle
NextEmbed ==
    \/ BuildStart
    \/ BuildEmbed
    \/ BuildIndex
    \/ BuildWrite
SpecEmbed == InitEmbed /\ [][NextEmbed]_vars

InitChunk ==
    /\ DedupeIdle /\ PromptIdle /\ QueryIdle /\ DiskIdle /\ CacheIdle /\ BuildIdle /\ LoaderIdle
    /\ \/ WindowInit /\ MarkdownIdle
       \/ WindowIdle /\ MarkdownInit
    /\ IngestIdle /\ ScanIdle
NextChunk ==
    \/ ChunkTextCall
    \/ SplitMarkdownCall
SpecChunk == InitChunk /\ [][NextChunk]_vars

InitIngest ==
    /\ DedupeIdle /\ PromptIdle /\ QueryIdle /\ DiskIdle /\ CacheIdle /\ BuildIdle /\ LoaderIdle
    /\ WindowIdle /\ MarkdownIdle /\ IngestInit /\ ScanIdle
NextIngest ==
    \/ IngestList
    \/ IngestFile
    \/ IngestWrite
    \/ IngestRerun
SpecIngest == InitIngest /\ [][NextIngest]_vars

InitScan ==
    /\ DedupeIdle /\ PromptIdle /\ QueryIdle /\ DiskIdle /\ CacheIdle /\ BuildIdle /\ LoaderIdle
    /\ WindowIdle /\ MarkdownIdle /\ IngestIdle /\ ScanInit
NextScan ==
    \/ ScanLine
    \/ ScanEnd
SpecScan == InitScan /\ [][NextScan]_vars

(***************************************************************************)
(* Claims about dedupe_by_source.                                          *)
(***************************************************************************)

\* Number of hits of list s whose file is f.
CountFile(s, f) == Cardinality({i \in DOMAIN s : s[i].file = f})

\* C1: for any hit list and any per_source_cap = k, the list returned by
\* dedupe_by_source holds at most k hits of each source file that occurs in
\* it, and it is a subsequence of the input in the same rank order: no hit
\* is reordered, duplicated or invented.
C1_DedupeCapAndOrder ==
    dd_pc = "done" =>
        /\ \A i \in DOMAIN dd_out : CountFile(dd_out, dd_out[i].file) <= dd_cap
        /\ IsSubseq(dd_out, dd_hits)
        /\ \A i, j \in DOMAIN dd_out : i < j => dd_out[i].id < dd_out[j].id

\* C1's case: a source with more hits than the cap lost some of them, and a
\* hit behind the dropped one survived.
C1_Witness ==
    /\ dd_pc = "done"
    /\ dd_cap >= 1
    /\ Len(dd_out) < Len(dd_hits)
    /\ Len(dd_out) >= 2
    /\ \E i \in DOMAIN dd_out : dd_out[i].id > i

(***************************************************************************)
(* Claims about build_prompt.                                              *)
(***************************************************************************)

\* Total length of the blocks of the first k contexts of the call.
RECURSIVE SumBlockLen(_)
SumBlockLen(k) ==
    IF k = 0 THEN 0 ELSE SumBlockLen(k - 1) + BlockLen(k, bp_contexts[k])

\* C8: build_prompt called with a non-empty hit list always admits the
\* first hit's block, even when that block alone is longer than
\* max_ctx_chars; when max_ctx_chars is smaller than the first block's
\* length the context consists of exactly that first block and no other.
C8_FirstBlockAlwaysAdmitted ==
    (bp_pc = "done" /\ bp_contexts # <<>>) =>
        /\ bp_blocks # <<>>
        /\ bp_blocks[1] = 1
        /\ (bp_max < BlockLen(1, bp_contexts[1]) => bp_blocks = <<1>>)

\* C8's case: several hits, the first block alone is over the budget, and
\* the context is that block alone.
C8_Witness ==
    /\ bp_pc = "done"
    /\ Len(bp_contexts) >= 2
    /\ bp_max < BlockLen(1, bp_contexts[1])
    /\ bp_blocks = <<1>>

\* C9: the accepted blocks are a prefix of the hit list in rank order;
\* accumulation stops at the first block whose length added to the running
\* total would exceed max_ctx_chars (once a block is accepted) and no later
\* block is admitted; whenever more than one block is accepted the sum of
\* the accepted blocks' lengths does not exceed max_ctx_chars.
C9_AcceptedBlocksArePrefixWithinBudget ==
    bp_pc = "done" =>
        LET n == Len(bp_blocks)
        IN  /\ n <= Len(bp_contexts)
            /\ \A i \in 1..n : bp_blocks[i] = i
            /\ n < Len(bp_contexts) =>
                   /\ n >= 1
                   /\ SumBlockLen(n) + BlockLen(n + 1, bp_contexts[n + 1]) > bp_max
            /\ \A j \in 2..n : SumBlockLen(j) <= bp_max
            /\ n > 1 => SumBlockLen(n) <= bp_max
            /\ bp_total = SumBlockLen(n)

\* C9's case: two blocks were accepted and a third one was cut off.
C9_Witness ==
    /\ bp_pc = "done"
    /\ Len(bp_blocks) = 2
    /\ Len(bp_contexts) = 3
    /\ SumBlockLen(2) <= bp_max

(***************************************************************************)
(* Claims about loading and querying.                                      *)
(***************************************************************************)

\* The request got its (index, corpus) pair from load_index_and_corpus.
Loaded == q_pc \in {"embed", "search", "collect", "generate"}

\* C5: for the pair returned by load_index_and_corpus, the corpus record at
\* list position i is the record persisted on line i of the corpus file,
\* for every i, whatever the content of the other lines of the file.
C5_CorpusPositionIsFileLine ==
    Loaded =>
        \A i \in DOMAIN q_corpus :
            /\ fs[CorpusFile].lines[i].ok
            /\ q_corpus[i] = fs[CorpusFile].lines[i].rec

\* The ranks of indices whose position is inside a corpus of n records.
InRangeRanks(indices, n) ==
    {i \in DOMAIN indices : indices[i] >= 0 /\ indices[i] < n}

\* C6: at query time every position returned by the index search that is
\* < 0 or >= len(corpus) is skipped without raising an error and is never
\* used to index the corpus; every in-range position produces exactly one
\* hit, and hits keep the order in which the search returned their
\* positions.
C6_OutOfRangeSkippedInRangeKept ==
    q_calls.collect =>
        /\ q_result.error.type # "index_error"
        /\ \A k \in DOMAIN q_used : q_used[k] >= 0 /\ q_used[k] < Len(q_corpus)
        /\ Len(q_used) = Cardinality(InRangeRanks(q_indices, Len(q_corpus)))
        /\ IsSubseq(q_used, q_indices)
        /\ Len(q_hits) = Len(q_used)
        /\ \A k \in DOMAIN q_hits : q_hits[k] = q_corpus[q_used[k] + 1]

\* C6's case: the search returned a position beyond the corpus and a -1,
\* and an in-range position ranked behind an out-of-range one gave a hit.
C6_Witness ==
    /\ q_calls.collect
    /\ \E i \in DOMAIN q_indices : q_indices[i] >= Len(q_corpus)
    /\ \E i \in DOMAIN q_indices : q_indices[i] < 0
    /\ \E i, j \in DOMAIN q_indices :
           /\ i < j
           /\ q_indices[i] >= Len(q_corpus)
           /\ q_indices[j] >= 0 /\ q_indices[j] < Len(q_corpus)
    /\ Len(q_hits) >= 2

\* C7: on every query path, a query vector whose dimension differs from the
\* index dimension is rejected before any index search is performed, with a
\* failure that names both the query dimension and the index dimension; no
\* hits are produced from such a query.
C7_DimensionMismatchRejectedBeforeSearch ==
    (q_qdim # 0 /\ q_qdim # q_index.d /\ q_pc # "search") =>
        /\ ~q_calls.search
        /\ q_result.kind = "error"
        /\ q_result.error.dims = {q_qdim, q_index.d}
        /\ q_hits = <<>>

\* C10: when no hit survives the bounds check and the per-source
\* deduplication, the request returns a result with an empty source list
\* and no error field, and neither builds a prompt nor calls the generation
\* service.
C10_NoHitsIsNoContextNotError ==
    (q_calls.collect /\ q_result.error.type # "index_error" /\ q_dedup = <<>>) =>
        /\ q_pc = "done"
        /\ q_result.kind = "answer"
        /\ q_result.answer = "no_context"
        /\ q_result.sources = <<>>
        /\ q_result.error = NoError
        /\ ~q_calls.prompt
        /\ ~q_calls.generate

\* C10's case: the search returned positions, none of them inside the
\* corpus, and the request ended with the "no context" answer.
C10_Witness ==
    /\ q_pc = "done"
    /\ q_calls.collect
    /\ \E i \in DOMAIN q_indices : q_indices[i] >= 0
    /\ q_hits = <<>>
    /\ q_result.kind = "answer"

\* C10's other case: hits were collected and the cap removed all of them.
C10_WitnessCapZero ==
    /\ q_pc = "done"
    /\ q_calls.collect
    /\ q_hits # <<>>
    /\ q_dedup = <<>>

(***************************************************************************)
(* Claims about the cache and the build.                                   *)
(***************************************************************************)

\* C2: when two or more requests concurrently perform the first load of
\* the same index directory through the process-wide cache, the loads are
\* serialized: the directory is read from disk at most once, the cache slot
\* is written at most once, and every request receives the same
\* (index, corpus) pair.
C2_FirstLoadSerialized ==
    /\ diskReads <= 1
    /\ cacheWrites <= 1
    /\ \A t, u \in Threads :
           (t_pc[t] = "returned" /\ t_pc[u] = "returned") => t_pair[t] = t_pair[u]

\* C3: a build run that fails at any step leaves no partial artifacts:
\* after the failed run the output directory holds no file written by that
\* run, so what is persisted is what the previous successful build left (or
\* nothing).
C3_FailedRunLeavesDirectoryUntouched ==
    b_status = "failed" => \A f \in Artifacts : fs[f] = fs_before[f]

\* C4: a rebuild replaces the index file and the corpus file atomically as
\* a pair: at every point of a rebuild, a query process that loads the
\* directory obtains an index and a corpus that come from the same build.
C4_LoadedPairFromOneBuild ==
    l_pc = "loaded" => l_index.by = l_corpus_by

(***************************************************************************)
(* Claims about the failures of a question and of a load.                  *)
(***************************************************************************)

\* The request went through ask_question and has returned or raised.
AskDone == q_path = "ask" /\ q_pc = "done"

\* C11: every failure during ask_question (unknown project, missing
\* artifact, embedding failure or malformed embedding response, dimension
\* mismatch, generation failure) is returned as a result with an error
\* reason; no exception reaches the caller, and no result holds both an
\* error and an answer.
C11_FailuresReturnedAsErrorResult ==
    AskDone =>
        /\ q_result.kind \in {"error", "answer"}
        /\ q_result.kind = "error" =>
               /\ q_result.error.type # "none"
               /\ q_result.answer = "" /\ q_result.sources = <<>>
        /\ q_result.kind = "answer" => q_result.error = NoError
        /\ q_args.project \notin Projects =>
               q_result.kind = "error" /\ q_result.error.type = "unknown_project"
        /\ (q_args.project \in Projects /\ MissingFiles(fs) # {}) =>
               q_result.kind = "error" /\ q_result.error.type = "missing"
        /\ (q_args.project \in Projects /\ AskLoad(fs).err = NoError /\ q_qdim = 0) =>
               /\ q_result.kind = "error"
               /\ q_result.error.type \in {"embed", "embed_transport", "embed_malformed"}
        /\ (q_qdim # 0 /\ q_qdim # q_index.d) =>
               q_result.kind = "error" /\ q_result.error.type = "dim"
        /\ (q_calls.generate /\ q_result.kind # "answer") =>
               q_result.kind = "error" /\ q_result.error.type = "generate"

\* ask_question ended on a missing artifact: FileNotFoundError was caught.
C11_Witness ==
    /\ AskDone
    /\ q_result.kind = "error"
    /\ q_result.error.type = "missing"

\* ask_question ended on a body of the embedding service that is not JSON.
C11_WitnessMalformed ==
    /\ AskDone
    /\ q_result.kind = "error"
    /\ q_result.error.type = "embed_malformed"

\* The request reached load_index_and_corpus and has ended.
LoadAttempted ==
    /\ q_pc = "done"
    /\ q_args.project \in Projects
    /\ q_path = "web" => q_args.question # ""

\* C12: loading a directory in which the index file or the corpus file is
\* absent fails with an error that names each absent file, and no artifact
\* is read before the failure; on the load path of ask.py and on the cached
\* loader of web.py.
C12_AbsentFilesNamedBeforeAnyRead ==
    (LoadAttempted /\ MissingFiles(fs) # {}) =>
        /\ q_result.kind = "error"
        /\ q_result.error.files = MissingFiles(fs)
        /\ ~q_calls.read_index
        /\ ~q_calls.read_corpus

\* The same on the load path of ask.py alone.
C12_AskPathNamesAbsentFiles ==
    q_path = "ask" => C12_AbsentFilesNamedBeforeAnyRead

\* ask_question met a directory with both files absent.
C12_AskWitness ==
    /\ AskDone
    /\ LoadAttempted
    /\ MissingFiles(fs) = {IndexFile, CorpusFile}

\* C13: a directory whose corpus holds a different number of records than
\* the index holds vectors loads without failure: ask.py
\* load_index_and_corpus returns the pair read from the two files and logs
\* a warning, and the query goes on to the search and returns the hits of
\* the in-range positions.
C13_SizeMismatchLoadsWithWarning ==
    (/\ q_path = "ask"
     /\ q_args.project \in Projects
     /\ MissingFiles(fs) = {}
     /\ fs[IndexFile].whole
     /\ Len(ReadCorpus(fs[CorpusFile].lines, 1)) # fs[IndexFile].ntotal)
    =>
        /\ q_index = ReadIndex(fs)
        /\ q_corpus = ReadCorpus(fs[CorpusFile].lines, 1)
        /\ q_calls.warning
        /\ q_result.error.type \notin {"missing", "read_index", "open"}
        /\ (q_qdim = q_index.d /\ q_pc \in {"collect", "generate", "done"}) =>
               q_calls.search
        /\ (q_calls.collect /\ q_qdim = q_index.d) =>
               /\ q_result.error.type \in {"none", "generate"}
               /\ Len(q_hits) = Cardinality(InRangeRanks(q_indices, Len(q_corpus)))
               /\ \A k \in DOMAIN q_hits :
                      /\ q_used[k] \in 0..(Len(q_corpus) - 1)
                      /\ q_hits[k] = HitOf(q_corpus[q_used[k] + 1])

\* ask_question answered from a directory of 3 vectors whose corpus has
\* fewer records: the warning was logged and in-range hits were returned.
C13_Witness ==
    /\ AskDone
    /\ q_calls.warning
    /\ q_index.ntotal = 3
    /\ Len(q_corpus) \in 1..2
    /\ q_calls.search
    /\ q_hits # <<>>
    /\ q_result.kind = "answer"
    /\ q_result.answer = "llm"

\* The same with more records than vectors.
C13_WitnessLongerCorpus ==
    /\ AskDone
    /\ q_calls.warning
    /\ Len(q_corpus) > q_index.ntotal
    /\ q_hits # <<>>
    /\ q_result.kind = "answer"

(***************************************************************************)
(* Claims about build runs and the embedding service.                      *)
(***************************************************************************)

\* The run has written no file.
NothingWritten == \A f \in Artifacts : fs[f] = fs_before[f]

\* C14: if an embedding request fails for any batch of a build (transport
\* error, non-200 status, undecodable body, missing embeddings field), the
\* build aborts: no index is constructed from the batches embedded before
\* it and the run writes no index, corpus or manifest file.
C14_FailedRequestAbortsBuild ==
    b_fault # "none" =>
        /\ b_pc = "idle"
        /\ b_status = "failed"
        /\ ~b_index.built
        /\ NothingWritten

\* A run of build_regard.py with an earlier batch embedded whose second
\* request got a non-200 status, over the files of an earlier run.
C14_Witness ==
    /\ b_kind = "regard"
    /\ b_fault = "status"
    /\ b_calls = 2
    /\ Len(b_resps) = 1
    /\ Flatten(b_resps) # <<>>
    /\ fs[IndexFile].exists

\* The same for build_query.py, the body lacking the embedding field.
C14_WitnessQuery ==
    /\ b_kind = "query"
    /\ b_fault = "no_field"
    /\ b_calls = 2
    /\ Len(b_resps) = 1

\* C15: a build run whose input holds no document, or whose documents give
\* zero chunks, ends with the report of the empty input, without a request
\* to the embedding service and without writing an index, corpus or
\* manifest file.
C15_EmptyBuildEndsWithoutEmbeddingOrWriting ==
    (b_run > 0 /\ b_chunks = 0) =>
        /\ b_pc = "idle"
        /\ b_status \in {"failed", "empty"}
        /\ b_calls = 0
        /\ ~b_index.built
        /\ NothingWritten

\* A second run, of build_regard.py, found nothing to index; the files of
\* the first run are there.
C15_Witness ==
    /\ b_run = 2
    /\ b_kind = "regard"
    /\ b_chunks = 0
    /\ b_status = "failed"
    /\ fs[IndexFile].by = 1

\* The same for build_query.py, which returns without an error status.
C15_WitnessQuery ==
    /\ b_run > 0
    /\ b_kind = "query"
    /\ b_chunks = 0
    /\ b_status = "empty"

\* A load that began after build run b_run had ended with success, no run
\* having started since, has ended.
LoadedAfterBuild ==
    /\ l_pc \in {"loaded", "failed"}
    /\ l_after.status = "ok"
    /\ l_after.run = b_run
    /\ b_chunks >= 1

\* C16: after a successful build from N >= 1 chunks, load_index_and_corpus
\* on the output directory of the build returns an index of exactly N
\* vectors and a corpus of exactly N records.
C16_RoundTripCounts ==
    LoadedAfterBuild =>
        /\ l_pc = "loaded"
        /\ l_index.ntotal = b_chunks
        /\ Len(l_corpus) = b_chunks

\* The same for the runs of build_regard.py alone.
C16_RegardRoundTripCounts ==
    b_kind = "regard" => C16_RoundTripCounts

\* A load after a successful run of build_regard.py over 2 chunks.
C16_RegardWitness ==
    /\ LoadedAfterBuild
    /\ b_kind = "regard"
    /\ b_chunks = 2
    /\ l_pc = "loaded"

\* The responses of the run hold a vector the build must not accept: a
\* response without a vector, an empty vector, or a vector whose length
\* differs from the length of an earlier vector of the run.
BadVectors(resps) ==
    \/ \E k \in DOMAIN resps : resps[k] = <<>>
    \/ \E i \in DOMAIN Flatten(resps) : Flatten(resps)[i] = 0
    \/ \E i, j \in DOMAIN Flatten(resps) : Flatten(resps)[i] # Flatten(resps)[j]

\* All requests of the run were answered and the shape tests are over.
EmbeddingOver == b_run > 0 /\ b_chunks > 0 /\ b_fault = "none" /\ b_pc \in {"idle", "write"}

\* C17: during a build, an embedding response that yields no vector, an
\* empty vector, or a vector whose length differs from the dimension of the
\* vectors seen earlier in the build, is a hard failure raised before
\* anything is added to the index or written to disk; such a vector is
\* never accepted into the index.
C17_BadVectorIsHardFailure ==
    (EmbeddingOver /\ BadVectors(b_resps)) =>
        /\ b_status = "failed"
        /\ ~b_index.built
        /\ NothingWritten

\* The same for the runs of build_query.py alone.
C17_QueryBadVectorIsHardFailure ==
    b_kind = "query" => C17_BadVectorIsHardFailure

\* A run of build_query.py got vectors of two lengths and failed.
C17_QueryWitness ==
    /\ b_kind = "query"
    /\ EmbeddingOver
    /\ BadVectors(b_resps)
    /\ b_status = "failed"

(***************************************************************************)
(* Claims about the order of the vectors.                                  *)
(***************************************************************************)

\* The number of texts request k of the run sent.
TextsOfRequest(k) == Sent(b_kind, b_chunks, k) - Sent(b_kind, b_chunks, k - 1)

\* C29: in a build that completes, vector row i of the index is the
\* embedding returned for chunk i: the build goes past the embedding only
\* if the response to each batch held exactly one vector per text of that
\* batch, so a batch answered with too few vectors is never made up for by
\* a batch answered with too many.
C29_EachBatchAnsweredInFull ==
    b_pc = "write" =>
        \A k \in DOMAIN b_resps : Len(b_resps[k]) = TextsOfRequest(k)

\* The same for build_query.py, which sends one text a request and takes
\* one vector from the response.
C29_QueryEachRequestAnsweredInFull ==
    (b_pc = "write" /\ b_kind = "query") =>
        \A k \in DOMAIN b_resps : Len(b_resps[k]) = TextsOfRequest(k)

\* build_regard.py built an index from a batch answered with no vector and
\* a batch answered with two.
C29_MadeUpCase ==
    /\ b_pc = "write"
    /\ b_kind = "regard"
    /\ Len(b_resps) = 2
    /\ Len(b_resps[1]) = 0
    /\ Len(b_resps[2]) = 2
    /\ b_index.d \in Dims

(***************************************************************************)
(* Claims about the chunkers.                                              *)
(***************************************************************************)

\* C18: every chunk emitted by either chunking strategy
\* (split_markdown_to_chunks with its re-split of oversized chunks, and
\* chunk_text) has a text that is not empty after trimming whitespace, for
\* every document, the empty and the whitespace-only ones included.
C18_ChunksNonEmptyAfterTrim ==
    /\ ct_pc = "done" => \A i \in DOMAIN ct_out : Strip(ct_out[i]) # <<>>
    /\ md_pc = "done" => \A i \in DOMAIN md_out : Strip(md_out[i].text) # <<>>

\* C18's case: an oversized chunk was split again and a sub-chunk was
\* started with the overlap of the one before.
C18_Witness ==
    /\ md_pc = "done"
    /\ \E i \in DOMAIN md_trace : md_trace[i].seed # <<>>

\* C18's other cases: a document of whitespace only gives no chunk, in
\* both strategies, and chunk_text gives several chunks.
C18_WitnessBlankDocument ==
    /\ md_pc = "done"
    /\ md_text # <<>>
    /\ Strip(md_text) = <<>>
    /\ md_out = <<>>

C18_WitnessBlankText ==
    /\ ct_pc = "done"
    /\ ct_text # <<>>
    /\ Strip(ct_text) = <<>>
    /\ ct_out = <<>>

C18_WitnessWindows ==
    /\ ct_pc = "done"
    /\ Len(ct_out) >= 2

\* The characters of the texts of chunks cs.
RECURSIVE TextChars(_)
TextChars(cs) == IF cs = <<>> THEN 0 ELSE Len(Head(cs).text) + TextChars(Tail(cs))

\* The characters of overlap that the texts of the chunks traced by tr
\* begin with: the overlap put in front, less what the strip took off.
RECURSIVE OverlapChars(_)
OverlapChars(tr) ==
    IF tr = <<>> THEN 0 ELSE Len(LStrip(Head(tr).seed)) + OverlapChars(Tail(tr))

\* C19: for every document, the chunks of split_markdown_to_chunks have a
\* total character count, less the overlap injected by the re-split, of at
\* least the number of non-whitespace characters of the document: no line
\* is left out of the chunk texts.
C19_NoLineDropped ==
    md_pc = "done" =>
        TextChars(md_out) - OverlapChars(md_trace) >= NonSpaceCount(md_text)

\* The same count when the loop over the lines left nothing out: no line
\* that starts with "#" outside a code block, no code block left open.
C19_HoldsWhenNothingLeftOut ==
    (md_pc = "done" /\ md_dropped = <<>>) =>
        TextChars(md_out) - OverlapChars(md_trace) >= NonSpaceCount(md_text)

\* A code block that is never closed: its lines are in no chunk.
C19_OpenFenceCase ==
    /\ md_pc = "done"
    /\ md_text = <<Tick, Tick, Tick, "\n", "a", "b", ".">>
    /\ md_out = <<>>

\* The last k characters of s, all of s when it is shorter.
Suffix(s, k) == IF k >= Len(s) THEN s ELSE SubSeq(s, Len(s) - k + 1, Len(s))

\* C20: in word-window mode, for consecutive chunks i and i+1 neither of
\* which is the final partial window, chunk i+1 begins with exactly the
\* last overlap * 4 characters of chunk i.
C20_NextChunkBeginsWithOverlapOfPrevious ==
    ct_pc = "done" =>
        \A i \in 1..(Len(ct_out) - 2) :
            StartsWith(ct_out[i + 1], Suffix(ct_out[i], ct_overlap * 4))


\* C21: in both chunking strategies the overlap text seeded into a new
\* chunk is a suffix of the previous chunk that is strictly shorter than
\* that chunk, for every overlap size, 0 and sizes at or above the chunk
\* length included.
C21_OverlapIsStrictSuffix ==
    /\ ct_pc = "done" =>
           \A i \in DOMAIN ct_tails :
               /\ EndsWith(ct_out[i], ct_tails[i])
               /\ Len(ct_tails[i]) < Len(ct_out[i])
    /\ md_pc = "done" =>
           \A i \in 2..Len(md_out) :
               md_trace[i].parent = md_trace[i - 1].parent =>
                   /\ EndsWith(md_out[i - 1].text, md_trace[i].seed)
                   /\ Len(md_trace[i].seed) < Len(md_out[i - 1].text)

\* The same for the chunks longer than an overlap size that is not 0.
C21_HoldsForOverlapInsideChunk ==
    /\ ct_pc = "done" =>
           \A i \in DOMAIN ct_tails :
               (0 < ct_overlap * 4 /\ ct_overlap * 4 < Len(ct_out[i])) =>
                   /\ EndsWith(ct_out[i], ct_tails[i])
                   /\ Len(ct_tails[i]) < Len(ct_out[i])
    /\ md_pc = "done" =>
           \A i \in 2..Len(md_out) :
               (/\ md_trace[i].parent = md_trace[i - 1].parent
                /\ md_overlap < Len(md_out[i - 1].text)) =>
                   /\ EndsWith(md_out[i - 1].text, md_trace[i].seed)
                   /\ Len(md_trace[i].seed) < Len(md_out[i - 1].text)

\* With overlap 0 the tail chunk[-0:] is the whole chunk.
C21_WholeChunkSeededAtOverlapZero ==
    /\ ct_pc = "done"
    /\ ct_overlap = 0
    /\ \E i \in DOMAIN ct_tails : ct_tails[i] = ct_out[i]

\* C22: in word-window mode every chunk returned by chunk_text(text,
\* chunk_tokens, overlap) has at most chunk_tokens * 4 characters, for
\* every text, one with a single word longer than the window included, and
\* every overlap setting.
C22_ChunkWithinWindow ==
    ct_pc = "done" =>
        \A i \in DOMAIN ct_out : Len(ct_out[i]) <= ct_chunk_tokens * 4

\* A text of one word longer than the window comes back as one chunk.
C22_LongWordCase ==
    /\ ct_pc = "done"
    /\ ct_text = <<"a", "a", "a", "a", "a">>
    /\ ct_chunk_tokens = 1
    /\ ct_out = <<ct_text>>

(***************************************************************************)
(* Claims about the re-split of split_markdown_to_chunks.                  *)
(***************************************************************************)

\* C27: the fallback splitter of split_markdown_to_chunks is size-bounded:
\* every chunk of its result has a text of at most CHUNK_CHAR_LIMIT
\* characters, for every input, a single sentence longer than the limit
\* and sub-chunks that start with injected overlap included.
C27_ChunksWithinLimit ==
    md_pc = "done" =>
        \A i \in DOMAIN md_out : Len(md_out[i].text) <= md_limit

\* A paragraph of one sentence over the limit comes back whole.
C27_LongSentenceCase ==
    /\ md_pc = "done"
    /\ md_text = <<"c", "-", "\n", "c", "-", "\n", "c", "-", "\n", "c", "-">>
    /\ Len(md_out) = 1
    /\ Len(md_out[1].text) > md_limit

\* A sub-chunk of overlap, a space and one sentence is over the limit.
C27_OverlapCase ==
    /\ md_pc = "done"
    /\ \E i \in DOMAIN md_out :
           /\ md_trace[i].seed # <<>>
           /\ Len(md_out[i].text) > md_limit
           /\ Len(md_out[i].text) - Len(md_trace[i].seed) <= md_limit

(***************************************************************************)
\* Sub-chunk i of the result was made from the same chunk as the one
\* before it.
AfterFirst(i) == i > 1 /\ md_trace[i].parent = md_trace[i - 1].parent

\* C28: when an oversized chunk is re-split, every sub-chunk after the
\* first begins with exactly the last CHUNK_OVERLAP_CHARS characters of
\* the sub-chunk emitted before it, or with no overlap when
\* CHUNK_OVERLAP_CHARS is 0, and every sub-chunk carries the file, title
\* and headings of the parent chunk.
C28_SubChunkBeginsWithOverlapAndKeepsContext ==
    md_pc = "done" =>
        \A i \in DOMAIN md_out :
            /\ (AfterFirst(i) /\ md_overlap > 0) =>
                   StartsWith(md_out[i].text, Suffix(md_out[i - 1].text, md_overlap))
            /\ (AfterFirst(i) /\ md_overlap = 0) => md_trace[i].seed = <<>>
            /\ md_out[i].file = md_chunks[md_trace[i].parent].file
            /\ md_out[i].title = md_chunks[md_trace[i].parent].title
            /\ md_out[i].headings = md_chunks[md_trace[i].parent].headings

\* The same when the overlap does not start with whitespace.
C28_HoldsWhenOverlapStartsInsideAWord ==
    md_pc = "done" =>
        \A i \in DOMAIN md_out :
            /\ (AfterFirst(i) /\ md_overlap > 0
                    /\ ~IsSpace(Suffix(md_out[i - 1].text, md_overlap)[1])) =>
                   StartsWith(md_out[i].text, Suffix(md_out[i - 1].text, md_overlap))
            /\ (AfterFirst(i) /\ md_overlap = 0) => md_trace[i].seed = <<>>
            /\ md_out[i].file = md_chunks[md_trace[i].parent].file
            /\ md_out[i].title = md_chunks[md_trace[i].parent].title
            /\ md_out[i].headings = md_chunks[md_trace[i].parent].headings

(* Claims about the code blocks of split_markdown_to_chunks.               *)
(***************************************************************************)

\* The lines of the document as written, with "\r\n" read as "\n".
RawLines == SplitLines(ReplaceCRLF(md_text))

\* The positions of the lines that are code fence markers.
RECURSIVE FencePositions(_, _)
FencePositions(lines, i) ==
    IF i > Len(lines) THEN <<>>
    ELSE (IF StartsWith(Strip(lines[i]), <<Tick, Tick, Tick>>) THEN <<i>> ELSE <<>>)
             \o FencePositions(lines, i + 1)

\* The fenced code blocks of the document: marker 2k-1 opens block k and
\* marker 2k closes it.
CodeBlocks ==
    LET F == FencePositions(RawLines, 1)
    IN  [k \in 1..(Len(F) \div 2) |->
            [open |-> F[2 * k - 1], close |-> F[2 * k],
             text |-> Join(<<"\n">>, SubSeq(RawLines, F[2 * k - 1], F[2 * k]))]]

\* C26: for every fenced code block of a document,
\* split_markdown_to_chunks emits all lines from the opening marker to the
\* closing marker, both included, as a single chunk of the result; no
\* emitted chunk holds both text from inside a code block and text from
\* outside it.  The formula is the first half: the text of every block is
\* the text of a returned chunk.
C26_CodeBlockIsOneChunk ==
    md_pc = "done" =>
        \A k \in DOMAIN CodeBlocks :
            \E i \in DOMAIN md_out : md_out[i].text = CodeBlocks[k].text

\* The same for the blocks the re-split and the collapse of blank lines
\* leave alone: no sentence end followed by whitespace in a block over the
\* limit, no two blank lines in a row.
C26_HoldsForBlocksLeftWhole ==
    md_pc = "done" =>
        \A k \in DOMAIN CodeBlocks :
            (/\ Len(CodeBlocks[k].text) <= md_limit
                    \/ Len(SplitSentences(CodeBlocks[k].text)) = 1
             /\ \A j \in CodeBlocks[k].open..(CodeBlocks[k].close - 1) :
                    ~(RawLines[j] = <<>> /\ RawLines[j + 1] = <<>>))
            => \E i \in DOMAIN md_out : md_out[i].text = CodeBlocks[k].text

\* A code block over the limit came back as several chunks.
C26_BlockSplitCase ==
    /\ md_pc = "done"
    /\ md_text = <<Tick, Tick, Tick, "\n", "a", "b", ".", "\n", Tick, Tick, Tick>>
    /\ Len(md_out) = 2

\* A code block with two blank lines came back with one.
C26_BlankLineLostCase ==
    /\ md_pc = "done"
    /\ md_text = <<Tick, Tick, Tick, "\n", "\n", "\n", Tick, Tick, Tick>>
    /\ Len(md_out) = 1
    /\ md_out[1].text = <<Tick, Tick, Tick, "\n", "\n", Tick, Tick, Tick>>

(***************************************************************************)
(* Claims about the loop over the input files.                             *)
(***************************************************************************)

\* The records of list recs that came from file f.
RecordsOf(recs, f) == SelectSeq(recs, LAMBDA r : r.file = f)

\* C23: the chunks of one document receive the ids "<file-stem>_0",
\* "<file-stem>_1", ... in emission order, so within a document the ids
\* are unique and increase, and the records appended to the corpus are in
\* the order in which the chunker emitted them (build_regard.py).
C23_IdsNumberTheChunksInEmissionOrder ==
    \A r \in DOMAIN i_written :
        (i_builder = "regard" /\ i_run = r /\ i_pc = "ended") =>
            \A e \in DOMAIN i_emitted :
                LET f == i_emitted[e].file
                    parts == i_emitted[e].parts
                    recs == RecordsOf(i_written[r].records, f)
                IN  /\ Len(recs) = Len(parts)
                    /\ \A k \in DOMAIN recs :
                           /\ recs[k].id = Stem(f) \o <<"_">> \o ToDecimal(k - 1)
                           /\ recs[k].text = parts[k].text
                    /\ \A j, k \in DOMAIN recs : j # k => recs[j].id # recs[k].id

\* C23's case: a build wrote the records of two documents, one of them
\* with several chunks.
C23_Witness ==
    /\ i_builder = "regard"
    /\ i_pc = "ended"
    /\ i_written[i_run].wrote
    /\ Len(i_emitted) >= 2
    /\ \E e \in DOMAIN i_emitted : Len(i_emitted[e].parts) >= 3
    /\ \E e \in DOMAIN i_emitted : Len(i_emitted[e].parts) = 2

\* Uniqueness over the whole corpus, which the code does not give: a.md and
\* a.markdown have the same stem and get the same ids.
C23_IdsUniqueAcrossDocuments ==
    (i_builder = "regard" /\ i_pc = "ended") =>
        \A j, k \in DOMAIN i_written[i_run].records :
            j # k => i_written[i_run].records[j].id # i_written[i_run].records[k].id

\* Both build runs over the directory have ended.
BothRunsEnded == \A r \in DOMAIN i_written : i_written[r].ended

\* C24: two build runs over identical input documents with a deterministic
\* embedding function write the same records in the same order, whatever
\* the order in which the file system lists the input files.
C24_RebuildWritesSameRecords ==
    (i_pc = "ended" /\ BothRunsEnded) =>
        /\ i_written[1].wrote = i_written[2].wrote
        /\ i_written[1].records = i_written[2].records

\* The same for build_regard.py alone, which sorts the file names.
C24_RegardRebuildWritesSameRecords ==
    (i_builder = "regard" /\ i_pc = "ended" /\ BothRunsEnded) =>
        /\ i_written[1].wrote = i_written[2].wrote
        /\ i_written[1].records = i_written[2].records

\* Two runs of build_regard.py that were given the files in different
\* orders and wrote the records of several files.
C24_RegardCase ==
    /\ i_builder = "regard"
    /\ i_pc = "ended"
    /\ BothRunsEnded
    /\ i_written[1].wrote
    /\ Len(i_emitted) >= 2
    /\ i_listing # Sort(i_listing)

(***************************************************************************)
(* Claims about the loop over the lines.                                   *)
(***************************************************************************)

\* The chunks a step appended.
NewChunks == SubSeq(ln_st'.chunks, Len(ln_st.chunks) + 1, Len(ln_st'.chunks))

\* The step processes a heading line outside a code block.
HeadingStep ==
    /\ ln_pos <= Len(ln_lines)
    /\ ln_pos' = ln_pos + 1
    /\ ~ln_st.in_code
    /\ HeaderMatch(Strip(ln_lines[ln_pos])).level > 0

\* C25: a heading line of level L (1..6) outside a code block sets level L
\* to the heading text, clears every deeper level and leaves every
\* shallower level as it was; every chunk finalized carries title = the
\* current H1, or the file name when no H1 is set, and headings = the
\* non-empty H2..H6 in outer-to-inner order, as they stand when it is
\* finalized.
C25_HeadingSetsLevelAndChunksCarryContext ==
    [][/\ HeadingStep =>
              LET m == HeaderMatch(Strip(ln_lines[ln_pos]))
              IN  /\ m.level \in 1..6
                  /\ ln_st'.h[m.level] = m.text
                  /\ \A n \in 1..6 : n > m.level => ln_st'.h[n] = <<>>
                  /\ \A n \in 1..6 : n < m.level => ln_st'.h[n] = ln_st.h[n]
       /\ \A k \in DOMAIN NewChunks :
              /\ NewChunks[k].title =
                     (IF ln_st.h[1] # <<>> THEN ln_st.h[1] ELSE FileName)
              /\ NewChunks[k].headings =
                     SelectSeq(<<ln_st.h[2], ln_st.h[3], ln_st.h[4], ln_st.h[5],
                                 ln_st.h[6]>>, LAMBDA x : x # <<>>)
       /\ (~HeadingStep /\ ln_pc = "scan") => ln_st'.h = ln_st.h]_vars

\* C25's case: a chunk was finalized under an H2 and an H3, and a later H2
\* cleared the H3.
C25_Witness ==
    /\ ln_pc = "done"
    /\ \E k \in DOMAIN ln_st.chunks : Len(ln_st.chunks[k].headings) = 2
    /\ ln_st.h[2] # <<>>
    /\ ln_st.h[3] = <<>>

\* C25's other case: an H3 was set under an H1 and an H2, which stayed.
C25_WitnessShallowerKept ==
    /\ ln_pc = "done"
    /\ ln_st.h[1] # <<>>
    /\ ln_st.h[2] # <<>>
    /\ ln_st.h[3] # <<>>
    /\ \E k \in DOMAIN ln_st.chunks :
           ln_st.chunks[k].title = ln_st.h[1] /\ ln_st.chunks[k].headings = <<>>

(***************************************************************************)
(* C30: the sources returned with an answer and the blocks of the prompt.  *)
(***************************************************************************)

\* The request ended with an answer of the generation service.
AnsweredByService == q_pc = "done" /\ q_result.kind = "answer" /\ q_result.answer = "llm"

\* The ranks (positions in the deduplicated hits) whose block build_prompt
\* put into the prompt.
RanksInPrompt == {q_prompt[k] : k \in DOMAIN q_prompt}

\* The rank of the first hit of the file a source URL stands for.
FirstRankOf(url) ==
    LET ranks == {k \in DOMAIN q_dedup :
                      ~Falsy(q_dedup[k].file) /\ make_url(q_dedup[k].file) = url}
    IN  IF ranks = {} THEN 0 ELSE CHOOSE k \in ranks : \A j \in ranks : k <= j

\* The returned sources are distinct and follow the rank of their first hit.
SourcesDistinctInRankOrder ==
    \A i, j \in DOMAIN q_result.sources :
        i < j => /\ q_result.sources[i] # q_result.sources[j]
                 /\ FirstRankOf(q_result.sources[i]) < FirstRankOf(q_result.sources[j])

\* C30: every source URL returned alongside an answer belongs to a hit whose
\* block was included in the prompt sent to the generation service (a file
\* whose only hits were cut off by the character budget is not listed), and
\* the returned sources are distinct and ordered by the rank of their first
\* hit.
C30_SourcesBelongToHitsInPrompt ==
    AnsweredByService =>
        /\ \A i \in DOMAIN q_result.sources :
               \E k \in RanksInPrompt :
                   /\ ~Falsy(q_dedup[k].file)
                   /\ make_url(q_dedup[k].file) = q_result.sources[i]
        /\ SourcesDistinctInRankOrder

\* The half of C30 the code keeps: with an answer, the sources are the
\* files of the deduplicated hits, each once, by the rank of the first hit.
C30_SourcesListFilesOfHitsInRankOrder ==
    AnsweredByService =>
        /\ SourcesDistinctInRankOrder
        /\ \A i \in DOMAIN q_result.sources : FirstRankOf(q_result.sources[i]) > 0
        /\ \A k \in DOMAIN q_dedup :
               ~Falsy(q_dedup[k].file) =>
                   \E i \in DOMAIN q_result.sources :
                       q_result.sources[i] = make_url(q_dedup[k].file)

\* The case C30 fails in: an answer is returned, the budget cut off every
\* hit of some file, and that file is listed as a source all the same.
C30_CutOffFileListed ==
    /\ AnsweredByService
    /\ \E k \in DOMAIN q_dedup :
           /\ k \notin RanksInPrompt
           /\ ~Falsy(q_dedup[k].file)
           /\ \A j \in RanksInPrompt : q_dedup[j].file # q_dedup[k].file
           /\ \E i \in DOMAIN q_result.sources :
                  q_result.sources[i] = make_url(q_dedup[k].file)
============================================================================
